---- MODULE Spec2Model ----
(***************************************************************************)
(* Model of the documentation pipeline: the continuous watcher             *)
(* (scripts/watch-and-update.js, class ContinuousDocsUpdater), under Spec  *)
(* and LiveSpec; the AI enhancer (scripts/enhance-with-ai.js), a process  *)
(* of its own, under EnhancerSpec; the generator (generate-docs.js), a     *)
(* process of its own, under GeneratorSpec; and the watcher's change       *)
(* detector as a function of the paths that arrived, under DetectorSpec;   *)
(* the job of the CI workflow under WorkflowSpec; and the generator and    *)
(* the enhancer as the watcher's batches run them on one tree of files,    *)
(* under BatchesSpec.                                                      *)
(*                                                                         *)
(* A file path is the sequence of its '/'-separated segments.  Time is     *)
(* discrete; one tick is one debounce delay, which divides the period of   *)
(* the interval timer.  A batch is one activation of the async function    *)
(* processAccumulatedChanges: its record holds the function's locals, the  *)
(* child process it is awaiting, the child processes it has run and the    *)
(* console lines it has printed.  Everything the function does between two *)
(* awaits is one step.  The environment variables the watcher only reads   *)
(* (the API keys, AUTO_PUSH) are inputs of the step that reads them; the   *)
(* ones it writes are the state variable env.                              *)
(***************************************************************************)
EXTENDS Integers, Sequences, FiniteSets, TLC

VARIABLES
    pendingChanges,    \* this.pendingChanges: the set of paths waiting for a batch
    isProcessing,      \* this.isProcessing
    debounceTimeout,   \* this.debounceTimeout: 0 (null) or the id of a timeout
    timers,            \* the armed timeouts: records [id, remaining]
    intervalRemaining, \* ticks until the setInterval callback is due
    running,           \* the activations of processAccumulatedChanges in flight
    env,               \* process.env.CHANGED_MODULES and process.env.TYPES_CHANGED
    lastFlush,         \* history: the latest call of processAccumulatedChanges
    sinceSnapshot,     \* history: the paths of the events since the latest snapshot
    process,           \* the enhancer's process.env and process.argv
    files,             \* the files on disk: a function from the paths that exist to contents
    filesAtStart,      \* history: the files when the enhancer process started
    enhancer,          \* the enhancer process: where it is, its fields, console and exit
    requests,          \* history: the requests sent to the Anthropic API, with their answers
    fileOps,           \* history: the reads and writes of the enhancer process
    now,               \* milliseconds since the enhancer process started
    config,            \* the generator's config.modules
    generator,         \* the generator process: its step, console, writes and past runs
    arrived,           \* the change detector's input: paths in their order of arrival
    changeSet,         \* the change detector's latest analysis
    workflow,          \* one run of the CI workflow's job update-docs
    docs               \* the watcher's batches as they act on the files: the batch at work

watcherVars == <<pendingChanges, isProcessing, debounceTimeout, timers,
                 intervalRemaining, running, env, lastFlush, sinceSnapshot>>

enhancerVars == <<process, files, filesAtStart, enhancer, requests, fileOps, now>>

generatorVars == <<config, generator>>

detectorVars == <<arrived, changeSet>>

pipelineVars == <<workflow, docs>>

vars == <<watcherVars, enhancerVars, generatorVars, detectorVars, pipelineVars>>

----------------------------------------------------------------------------
(* Bounds and program constants *)

NumPaths == 3

aiUpdateThreshold == 3
DebounceMs == 5000
IntervalMs == 30000

TickMs == DebounceMs
DebounceTicks == DebounceMs \div TickMs
IntervalTicks == IntervalMs \div TickMs

Root == <<"..", "..", "agves_app", "src">>

PathUniverse ==
    << Root \o <<"modules", "sales", "pages", "OrderList.tsx">>,
       Root \o <<"generated.d.ts">>,
       Root \o <<"components", "Button.tsx">>,
       Root \o <<"modules", "hr", "components", "Card.tsx">>,
       Root \o <<"lib", "services", "api.ts">>,
       Root \o <<"modules", "sales", "services", "OrderService.tsx">> >>

Min(a, b) == IF a < b THEN a ELSE b

\* The paths the watcher can report (files matching this.watchPaths).
Paths == { PathUniverse[i] : i \in 1..Min(NumPaths, Len(PathUniverse)) }

\* What the process can find in the environment variables it only reads.
ApiKeys == [ ANTHROPIC_API_KEY : BOOLEAN, OPENAI_API_KEY : BOOLEAN ]
AutoPush == { "true", "" }

----------------------------------------------------------------------------
(* analyzeChanges *)

\* filePath.includes('/<name>/'): a segment <name> with a '/' on both sides.
HasSegment(p, name) == \E i \in 2..(Len(p) - 1) : p[i] = name

\* filePath.split('/modules/')[1].split('/')[0]
ModuleName(p) ==
    LET i == CHOOSE k \in 2..(Len(p) - 1) :
                 /\ p[k] = "modules"
                 /\ \A j \in 2..(k - 1) : p[j] # "modules"
    IN  p[i + 1]

\* filePath.includes('generated.d.ts')
IsTypesFile(p) == \E i \in 1..Len(p) : p[i] = "generated.d.ts"

analyzeChanges(filePaths) ==
    [ modules    |-> { ModuleName(p) : p \in { q \in filePaths : HasSegment(q, "modules") } },
      types      |-> \E p \in filePaths : IsTypesFile(p),
      components |-> \E p \in filePaths : HasSegment(p, "components"),
      services   |-> \E p \in filePaths : HasSegment(p, "services") ]

----------------------------------------------------------------------------
(* A batch: one activation of processAccumulatedChanges *)

SyncTypes    == "npm run sync:types"
GenerateDocs == "node scripts/generate-docs.js"
EnhanceDocs  == "node scripts/enhance-with-ai.js"
GitStatus    == "git status --porcelain"
GitAdd       == "git add ."
GitCommit    == "git commit"
GitPush      == "git push"
Returned     == "returned"

\* The script sync:types of package.json, for a types file that is "present"
\* or "absent" in the application:
\*   cp ../../agves_app/src/generated.d.ts ./types/ 2>/dev/null || echo 'Types not found'
\* cp exits with 1 when its source is missing, echo with 0, and a || b with the
\* status of a when that is 0 and with the status of b otherwise.
TypesFile == { "present", "absent" }
cp(source) == IF source = "present" THEN 0 ELSE 1
echo == 0
OrElse(first, second) == IF first = 0 THEN 0 ELSE second
SyncTypesScript_withoutFallback(source) == cp(source)
SyncTypesScript(source) == OrElse(cp(source), echo)

\* How npm run sync:types ends for the watcher: "ok" when the script exits
\* with 0, "fail" when it exits with another status.
SyncTypesResult(source) == IF SyncTypesScript(source) = 0 THEN "ok" ELSE "fail"

\* How an awaited child process can end.  For git status, a successful exit
\* prints either nothing ("clean") or the changed files ("dirty").  npm run
\* sync:types ends as its script does, or fails when npm does not run it.
Results(cmd) ==
    IF cmd = GitStatus THEN {"clean", "dirty", "fail"}
    ELSE IF cmd = SyncTypes THEN {"fail"} \cup { SyncTypesResult(source) : source \in TypesFile }
    ELSE {"ok", "fail"}

\* console.log / console.error of a batch: the text, and the paths it prints.
Line(msg) == [msg |-> msg, paths |-> {}]
Say(b, msg) == [b EXCEPT !.console = Append(@, Line(msg))]
Ran(b, result) == [b EXCEPT !.execs = Append(@, [cmd |-> b.awaiting, fn |-> b.fn, result |-> result])]
Await(b, cmd) == [b EXCEPT !.awaiting = cmd]

MeetsThreshold_exclusive(changes) == Cardinality(changes) > aiUpdateThreshold

\* changes.length >= this.aiUpdateThreshold
MeetsThreshold(changes) == Cardinality(changes) >= aiUpdateThreshold

\* Each operator below runs a batch from one point of the code to its next
\* await or to its return, and gives the set of pairs <<batch, env>> it can
\* end in: one pair for each value the environment variables read on the way
\* can hold.

\* The tail of processAccumulatedChanges: the success line, then finally.
Finish(b, e) == { <<Await(Say(b, "Documentation updated successfully"), Returned), e>> }

\* aiEnhancedUpdate up to its first await or its return, for the API keys k it
\* finds in process.env.
RunsEnhancer(b, e) ==
    { <<Await(b, EnhanceDocs),
        [e EXCEPT !.CHANGED_MODULES = b.analysis.modules,
                  !.TYPES_CHANGED = IF b.analysis.types THEN "true" ELSE ""]>> }

aiEnhancedUpdateWith_withoutKeyCheck(b, e, k) ==
    RunsEnhancer(Say([b EXCEPT !.fn = "aiEnhancedUpdate"],
                     "Running AI-enhanced documentation update..."), e)

aiEnhancedUpdateWith(b, e, k) ==
    LET b1 == Say([b EXCEPT !.fn = "aiEnhancedUpdate"],
                  "Running AI-enhanced documentation update...")
    IN  IF ~k.ANTHROPIC_API_KEY /\ ~k.OPENAI_API_KEY
        THEN Finish(Say(b1, "No AI API keys found, skipping AI enhancement"), e)
        ELSE RunsEnhancer(b1, e)

\* aiEnhancedUpdate up to its first await or its return.
aiEnhancedUpdate(b, e) == UNION { aiEnhancedUpdateWith(b, e, k) : k \in ApiKeys }

\* processAccumulatedChanges after "await this.quickUpdate(changeAnalysis)".
AfterQuickUpdate(b, e) ==
    IF MeetsThreshold(b.changes) THEN aiEnhancedUpdate(b, e) ELSE Finish(b, e)

\* The caller of commitChanges resumes: quickUpdate returns to
\* processAccumulatedChanges, aiEnhancedUpdate returns to its tail.
AfterCommit(b, e) ==
    IF b.fn = "quickUpdate" THEN AfterQuickUpdate(b, e) ELSE Finish(b, e)

\* catch blocks
CommitFailed(b, e) == AfterCommit(Say(b, "Commit failed"), e)
QuickUpdateFailed(b, e) == AfterQuickUpdate(Say(b, "Quick update failed"), e)
AIEnhancementFailed(b, e) == Finish(Say(b, "AI enhancement failed"), e)

commitChanges_withoutStatus(b, e) == { <<Await(b, GitAdd), e>> }

\* commitChanges up to its first await
commitChanges(b, e) == { <<Await(b, GitStatus), e>> }

Committed(b, e) == AfterCommit(Say(b, "Changes committed successfully"), e)

\* process.env.AUTO_PUSH as commitChanges reads it: the batch keeps the value
\* with the number of commands it had run by then.
ReadAutoPush(b, push) ==
    [b EXCEPT !.autoPush = Append(@, [after |-> Len(b.execs), value |-> push])]

AfterGitCommit_alwaysPushes(b, e) ==
    { <<Await(ReadAutoPush(b, push), GitPush), e>> : push \in AutoPush }

\* commitChanges after a successful git commit
AfterGitCommit(b, e) ==
    UNION { IF push = "true" THEN { <<Await(ReadAutoPush(b, push), GitPush), e>> }
            ELSE Committed(ReadAutoPush(b, push), e)
            : push \in AutoPush }

\* The awaited child process of batch b ends with `result`: the batch runs on
\* to its next await or to its return.
Resume(b, result, e) ==
    LET b1 == Ran(b, result) IN
    CASE b.awaiting = SyncTypes ->
           IF result = "ok" THEN { <<Await(b1, GenerateDocs), e>> }
           ELSE QuickUpdateFailed(b1, e)
      [] b.awaiting = GenerateDocs ->
           IF result = "ok" THEN commitChanges(b1, e)
           ELSE QuickUpdateFailed(b1, e)
      [] b.awaiting = EnhanceDocs ->
           IF result = "ok" THEN commitChanges(b1, e)
           ELSE AIEnhancementFailed(b1, e)
      [] b.awaiting = GitStatus ->
           IF result = "dirty" THEN { <<Await(b1, GitAdd), e>> }
           ELSE IF result = "clean" THEN AfterCommit(b1, e)
           ELSE CommitFailed(b1, e)
      [] b.awaiting = GitAdd ->
           IF result = "ok" THEN { <<Await(b1, GitCommit), e>> }
           ELSE CommitFailed(b1, e)
      [] b.awaiting = GitCommit ->
           IF result = "ok" THEN AfterGitCommit(b1, e) ELSE CommitFailed(b1, e)
      [] b.awaiting = GitPush ->
           IF result = "ok" THEN Committed(b1, e) ELSE CommitFailed(b1, e)

\* processAccumulatedChanges from the snapshot to the first await of quickUpdate.
Begin(changes) ==
    LET analysis == analyzeChanges(changes) IN
    [ changes  |-> changes,
      analysis |-> analysis,
      fn       |-> "quickUpdate",
      awaiting |-> IF analysis.types THEN SyncTypes ELSE GenerateDocs,
      execs    |-> << >>,
      autoPush |-> << >>,
      console  |-> << Line("Processing accumulated changes..."),
                      Line("Running quick documentation update...") >> ]

----------------------------------------------------------------------------
(* Timers *)

\* clearTimeout(handle): cancels that timeout if it is still armed.
clearTimeout(handle, ts) == { t \in ts : t.id # handle }

\* The identity of a new Timeout object: an id no armed timeout has.
NewTimerId(ts) ==
    CHOOSE n \in 1..(Cardinality(ts) + 1) :
        /\ \A t \in ts : t.id # n
        /\ \A m \in 1..(n - 1) : \E t \in ts : t.id = m

\* setTimeout(cb, 5000)
setTimeout(ts, id) == ts \cup { [id |-> id, remaining |-> DebounceTicks] }

----------------------------------------------------------------------------
(* Handlers *)

\* The generator is a child process too (GenerateDocs), with its own
\* specification; so is the change detector taken as a function of its input.
NoGeneratorProcess ==
    /\ config = << >>
    /\ generator = [ pc |-> "none" ]

\* Neither the CI workflow nor a sequence of batches on the files is under way.
NoPipelineRun ==
    /\ workflow = [ pc |-> "none" ]
    /\ docs = [ phase |-> "none" ]

NoDetectorInput ==
    /\ arrived = << >>
    /\ changeSet = [ analysed |-> FALSE, earlier |-> << >>, env |-> << >> ]

\* The watcher runs the enhancer as a child process (EnhanceDocs); that process
\* has its own specification below, and none exists here.
NoEnhancerProcess ==
    /\ process = [ env |-> << >>, argv |-> << >> ]
    /\ files = << >>
    /\ filesAtStart = << >>
    /\ enhancer = [ pc |-> "none" ]
    /\ requests = << >>
    /\ fileOps = << >>
    /\ now = 0

Init ==
    /\ pendingChanges = {}
    /\ isProcessing = FALSE
    /\ debounceTimeout = 0
    /\ timers = {}
    /\ intervalRemaining = IntervalTicks
    /\ running = {}
    /\ env = [ CHANGED_MODULES |-> {}, TYPES_CHANGED |-> "" ]
    /\ lastFlush = [ trigger |-> "none", outcome |-> "none" ]
    /\ sinceSnapshot = {}
    /\ NoEnhancerProcess
    /\ NoGeneratorProcess
    /\ NoDetectorInput
    /\ NoPipelineRun

ReturnsEarly_ignoresIsProcessing == pendingChanges = {}

ReturnsEarly_ignoresPending == isProcessing

\* if (this.isProcessing || this.pendingChanges.size === 0) return;
ReturnsEarly == isProcessing \/ pendingChanges = {}

Snapshot_afterClear(pending) == {}

\* const changes = Array.from(this.pendingChanges)
Snapshot(pending) == pending

AfterSnapshot_notCleared(pending) == pending

\* The pending set after this.pendingChanges.clear()
AfterSnapshot(pending) == {}

processAccumulatedChanges(trigger) ==
    IF ReturnsEarly
    THEN /\ UNCHANGED <<pendingChanges, isProcessing, running, sinceSnapshot>>
         /\ lastFlush' = [ trigger |-> trigger, outcome |-> "returned early" ]
    ELSE /\ isProcessing' = TRUE
         /\ running' = running \cup { Begin(Snapshot(pendingChanges)) }
         /\ pendingChanges' = AfterSnapshot(pendingChanges)
         /\ lastFlush' = [ trigger |-> trigger, outcome |-> "started" ]
         /\ sinceSnapshot' = {}

\* The debounce of handleFileChange: clearTimeout, then setTimeout.
Rearm(handle, ts) == setTimeout(clearTimeout(handle, ts), NewTimerId(clearTimeout(handle, ts)))

handleFileChange(filePath) ==
    /\ pendingChanges' = pendingChanges \cup {filePath}
    /\ sinceSnapshot' = sinceSnapshot \cup {filePath}
    /\ timers' = Rearm(debounceTimeout, timers)
    /\ debounceTimeout' = NewTimerId(clearTimeout(debounceTimeout, timers))
    /\ UNCHANGED <<isProcessing, intervalRemaining, running, env, lastFlush>>
    /\ UNCHANGED <<enhancerVars, generatorVars, detectorVars, pipelineVars>>

handleFileDelete(filePath) ==
    /\ pendingChanges' = pendingChanges \cup {filePath}
    /\ sinceSnapshot' = sinceSnapshot \cup {filePath}
    /\ UNCHANGED <<isProcessing, debounceTimeout, timers, intervalRemaining, running, env,
                   lastFlush>>
    /\ UNCHANGED <<enhancerVars, generatorVars, detectorVars, pipelineVars>>

\* watcher.on('change' | 'add' | 'unlink', ...)
WatcherEvent(kind, filePath) ==
    IF kind = "unlink" THEN handleFileDelete(filePath) ELSE handleFileChange(filePath)

OnChange == \E p \in Paths : WatcherEvent("change", p)
OnAdd    == \E p \in Paths : WatcherEvent("add", p)
OnUnlink == \E p \in Paths : WatcherEvent("unlink", p)

\* A debounce timeout is due: its callback calls processAccumulatedChanges.
DebounceFire ==
    \E t \in timers :
        /\ t.remaining = 0
        /\ timers' = timers \ {t}
        /\ processAccumulatedChanges("debounce")
        /\ UNCHANGED <<debounceTimeout, intervalRemaining, env>>
        /\ UNCHANGED <<enhancerVars, generatorVars, detectorVars, pipelineVars>>

IntervalFire_withoutFlush ==
    /\ intervalRemaining = 0
    /\ intervalRemaining' = IntervalTicks
    /\ UNCHANGED <<pendingChanges, isProcessing, debounceTimeout, timers, running, env,
                   lastFlush, sinceSnapshot>>
    /\ UNCHANGED <<enhancerVars, generatorVars, detectorVars, pipelineVars>>

\* The setInterval callback is due.
IntervalFire ==
    /\ intervalRemaining = 0
    /\ intervalRemaining' = IntervalTicks
    /\ processAccumulatedChanges("interval")
    /\ UNCHANGED <<debounceTimeout, timers, env>>
    /\ UNCHANGED <<enhancerVars, generatorVars, detectorVars, pipelineVars>>

\* Time passes by one tick; a due callback runs before time passes further.
Tick ==
    /\ intervalRemaining > 0
    /\ \A t \in timers : t.remaining > 0
    /\ intervalRemaining' = intervalRemaining - 1
    /\ timers' = { [t EXCEPT !.remaining = @ - 1] : t \in timers }
    /\ UNCHANGED <<pendingChanges, isProcessing, debounceTimeout, running, env, lastFlush,
                   sinceSnapshot>>
    /\ UNCHANGED <<enhancerVars, generatorVars, detectorVars, pipelineVars>>

FinallyBlock_clearsPending ==
    /\ isProcessing' = FALSE
    /\ pendingChanges' = {}

FinallyBlock_missing == UNCHANGED <<isProcessing, pendingChanges>>

\* finally { this.isProcessing = false; }
FinallyBlock ==
    /\ isProcessing' = FALSE
    /\ UNCHANGED pendingChanges

\* The child process a batch awaits ends; the batch runs to its next await,
\* or returns through "finally { this.isProcessing = false }".
BatchStep ==
    \E b \in running : \E r \in Results(b.awaiting) : \E next \in Resume(b, r, env) :
        /\ env' = next[2]
        /\ IF next[1].awaiting = Returned
           THEN /\ running' = running \ {b}
                /\ FinallyBlock
           ELSE /\ running' = (running \ {b}) \cup {next[1]}
                /\ UNCHANGED <<isProcessing, pendingChanges>>
        /\ UNCHANGED <<debounceTimeout, timers, intervalRemaining, lastFlush, sinceSnapshot>>
        /\ UNCHANGED <<enhancerVars, generatorVars, detectorVars, pipelineVars>>

Next ==
    \/ OnChange
    \/ OnAdd
    \/ OnUnlink
    \/ DebounceFire
    \/ IntervalFire
    \/ Tick
    \/ BatchStep

Spec == Init /\ [][Next]_vars

\* Timers fire, time passes, and an awaited child process ends.
LiveSpec ==
    /\ Spec
    /\ WF_vars(Tick)
    /\ WF_vars(DebounceFire)
    /\ WF_vars(IntervalFire)
    /\ WF_vars(BatchStep)

----------------------------------------------------------------------------
(* Properties of the watcher *)

\* The batches one step of batch b can lead to, a returning batch included.
Outcomes(b) == { n[1] : n \in UNION { Resume(b, r, env) : r \in Results(b.awaiting) } }

\* The batches in flight, each with the batches its next step can lead to.
Observed == running \cup UNION { Outcomes(b) : b \in running }

Printed(b, msg) == \E i \in 1..Len(b.console) : b.console[i].msg = msg

Executed(b, cmd, result) ==
    \E i \in 1..Len(b.execs) : b.execs[i].cmd = cmd /\ b.execs[i].result = result

\* A timer callback calls processAccumulatedChanges.
Flush == DebounceFire \/ IntervalFire

\* This step starts a batch with every pending path and empties the pending set.
StartsBatchOfPending ==
    /\ pendingChanges' = {}
    /\ isProcessing'
    /\ \E b \in running' \ running : b.changes = pendingChanges /\ b.execs = << >>

\* C1: at most one batch is in flight at any time, and a flush (debounce
\* firing or interval tick) made while a batch is in flight starts nothing:
\* the batches in flight, the pending set and isProcessing stay as they are.
C1_OneBatchInFlight ==
    /\ [](Cardinality(running) <= 1 /\ (isProcessing <=> running # {}))
    /\ [][ (isProcessing /\ Flush)
             => /\ UNCHANGED <<running, pendingChanges, isProcessing, env>>
                /\ lastFlush'.outcome = "returned early" ]_vars

\* C1 witness: a flush has returned early while a batch was in flight and
\* paths were pending.
C1_Witness ==
    /\ isProcessing
    /\ running # {}
    /\ pendingChanges # {}
    /\ lastFlush.outcome = "returned early"

\* C2: an event that arrives while a batch is in flight leaves that batch as
\* it is and its path is in the pending set afterwards; a path leaves the
\* pending set only when a batch starts with it; a batch in flight keeps its
\* paths and the commands it has run until it returns.
C2_EventsQueueForNextBatch ==
    [][ /\ \A p \in sinceSnapshot' \ sinceSnapshot :
             /\ p \in pendingChanges'
             /\ isProcessing => (running' = running /\ isProcessing')
        /\ (isProcessing /\ pendingChanges' # pendingChanges)
              => (running' = running /\ pendingChanges \subseteq pendingChanges')
        /\ (pendingChanges \subseteq pendingChanges') \/ StartsBatchOfPending
        /\ \A b \in running :
             \/ b \in running'
             \/ \E c \in running' \ running :
                    /\ c.changes = b.changes
                    /\ Len(c.execs) = Len(b.execs) + 1
                    /\ SubSeq(c.execs, 1, Len(b.execs)) = b.execs
             \/ /\ running' = running \ {b}
                /\ \E c \in Outcomes(b) : c.awaiting = Returned
      ]_vars

\* C2 witness: a path is pending while a batch that has already run a command
\* is in flight.
C2_Witness ==
    /\ pendingChanges # {}
    /\ \E b \in running : Len(b.execs) > 0 /\ pendingChanges \cap b.changes = {}

\* C3: the pending set holds exactly the paths of the events that arrived
\* after the latest batch took its snapshot: a path a batch has processed is
\* pending again only if a newer event re-added it.
C3_PendingIsSinceSnapshot ==
    /\ pendingChanges = sinceSnapshot
    /\ \A b \in running : (b.changes \cap pendingChanges) \subseteq sinceSnapshot

\* C3 witness: a batch has started and ended, and none of its paths is pending.
C3_Witness ==
    /\ lastFlush.outcome = "started"
    /\ running = {}
    /\ ~isProcessing
    /\ pendingChanges = {}

ThresholdPolicy(b) ==
    /\ Printed(b, "Running quick documentation update...")
    /\ Printed(b, "Running AI-enhanced documentation update...")
          => /\ Cardinality(b.changes) >= aiUpdateThreshold
             /\ b.console[2].msg = "Running quick documentation update..."
    /\ (b.fn = "aiEnhancedUpdate" \/ b.awaiting = Returned)
          => (Cardinality(b.changes) >= aiUpdateThreshold
                <=> Printed(b, "Running AI-enhanced documentation update..."))
    /\ b.fn = "aiEnhancedUpdate" => Printed(b, "Running AI-enhanced documentation update...")

\* C4: every batch enters quickUpdate first; a batch enters aiEnhancedUpdate
\* only if it has at least aiUpdateThreshold distinct paths and only after
\* quickUpdate; once quickUpdate is over, a batch has entered aiEnhancedUpdate
\* if and only if it has at least aiUpdateThreshold paths.
C4_ThresholdPolicy == \A b \in Observed : ThresholdPolicy(b)

\* C4 witness: a batch of exactly aiUpdateThreshold paths awaits the enhancer
\* after its quick update.
C4_Witness ==
    \E b \in running :
        /\ Cardinality(b.changes) = aiUpdateThreshold
        /\ b.awaiting = EnhanceDocs
        /\ Executed(b, GenerateDocs, "ok")

FailureLines == { "Quick update failed", "AI enhancement failed", "Commit failed",
                  "Error processing changes" }

\* The batch has started the enhancement: it runs or has run the enhancer.
EnhancementStarted(b) ==
    b.awaiting = EnhanceDocs \/ \E r \in Results(EnhanceDocs) : Executed(b, EnhanceDocs, r)

\* The batch makes or has made a commit.
CommitMade(b) ==
    b.awaiting = GitCommit \/ \E r \in Results(GitCommit) : Executed(b, GitCommit, r)

\* C5: within one batch the enhancement starts only after the generator has
\* completed successfully; after a failed regeneration it is not started.
C5_EnhancementOnlyAfterRegeneration ==
    \A b \in running : EnhancementStarted(b) => Executed(b, GenerateDocs, "ok")

\* C6: after the generator run of a batch has failed, that batch makes no
\* commit, neither the quick one nor the AI-enhanced one.
C6_NoCommitAfterFailedGeneration ==
    \A b \in running : Executed(b, GenerateDocs, "fail") => ~CommitMade(b)

\* The debounce is armed afresh: exactly one timeout is armed, it has the
\* full delay to run, and this.debounceTimeout holds it.
DebounceRearmed ==
    timers' = { [id |-> debounceTimeout', remaining |-> DebounceTicks] }

\* C7: every watcher event (change, add or unlink) adds its path to the
\* pending set and re-arms the debounce timer to the full delay, cancelling
\* the timeout armed before.
C7_EveryEventRearmsDebounce ==
    [][ \A k \in {"change", "add", "unlink"} : \A p \in Paths :
            WatcherEvent(k, p) => (p \in pendingChanges' /\ DebounceRearmed) ]_vars

\* C8 as stated: whenever the debounce timer fires while no batch is in
\* flight, a batch starts with every pending path and the pending set is
\* left empty.
C8_DebounceFireStartsBatch ==
    [][ (DebounceFire /\ ~isProcessing) => StartsBatchOfPending ]_vars

\* C8 amended: whenever the debounce timer fires while no batch is in flight
\* and the pending set is not empty, a batch starts with every pending path
\* and the pending set is left empty; when the pending set is empty (a batch
\* started by the interval timer has taken the paths), nothing starts.
C8_DebounceFireStartsBatchOfPending ==
    [][ /\ (DebounceFire /\ ~isProcessing /\ pendingChanges # {}) => StartsBatchOfPending
        /\ (DebounceFire /\ pendingChanges = {})
              => UNCHANGED <<running, isProcessing, pendingChanges>> ]_vars

\* C8 witness: the debounce callback has just started a batch and the pending
\* set is empty.
C8_Witness ==
    /\ lastFlush = [ trigger |-> "debounce", outcome |-> "started" ]
    /\ pendingChanges = {}
    /\ \E b \in running : b.execs = << >>

\* C9: every pending path is eventually in a started batch, also when events
\* keep re-arming the debounce or the debounce fired during a batch; the
\* interval timer starts a batch of every pending path at each tick at which
\* no batch is in flight and a path is pending.
C9_PendingEventuallyProcessed ==
    /\ \A p \in Paths : (p \in pendingChanges) ~> (\E b \in running : p \in b.changes)
    /\ [][ (IntervalFire /\ ~isProcessing /\ pendingChanges # {})
              => StartsBatchOfPending ]_vars

\* C9 witness: the interval callback has just started a batch while a
\* debounce timeout is still armed.
C9_Witness ==
    /\ lastFlush = [ trigger |-> "interval", outcome |-> "started" ]
    /\ timers # {}
    /\ \E b \in running : b.execs = << >>

\* C10: every failure line a batch prints carries the full change-set of the
\* batch.
C10_FailureLoggedWithChangeSet ==
    \A b \in Observed : \A i \in 1..Len(b.console) :
        b.console[i].msg \in FailureLines => b.console[i].paths = b.changes

----------------------------------------------------------------------------
(* The AI enhancer (scripts/enhance-with-ai.js, class AIDocumentationEnhancer) *)
(*                                                                           *)
(* One run of the script is one process.  A text (a prompt's part, a reply,  *)
(* a page's content) is the sequence of its pieces, so that '' is << >> and  *)
(* string concatenation is \o.  The files on disk are a function from the    *)
(* paths that exist to their contents; paths are relative to the             *)
(* documentation root (the parent of __dirname).  Everything the process     *)
(* does between two awaits of the API or of the backoff timer is one step.   *)

MaxRateLimited == 2

RetryDelayMs == 60000

\* The names that can stand on a line of CHANGED_MODULES: a module the
\* generator documents, and one it does not.
Modules == {"sales", "hr"}

\* config.modules of the generator: the modules it writes a page for.
GeneratorModules == {"authorization", "financial", "identity", "sales", "school"}

ModuleDocPath(moduleName) == <<"modules", moduleName \o ".mdx">>
OverviewPath == <<"architecture", "overview.mdx">>
PerfPath == <<"architecture", "performance.mdx">>
TypesPath == <<"types", "generated.d.ts">>
ApiPagePath == <<"api-reference", "sales", "order.mdx">>
DocsConfigPath == <<"docs.json">>

\* The pages of this tree that the generator writes (its other pages are not
\* among the ones the enhancer writes).
GeneratorWrites(path) ==
    \/ path = OverviewPath
    \/ \E m \in GeneratorModules : path = ModuleDocPath(m)
    \/ path \in { ApiPagePath, DocsConfigPath }

\* fs.existsSync, and the file system after fs.writeFileSync
existsSync(fs, path) == path \in DOMAIN fs
Put(fs, path, content) ==
    [ q \in DOMAIN fs \cup {path} |-> IF q = path THEN content ELSE fs[q] ]

\* A page as the generator, or a person, left it.
PageBefore(path) == << "page " \o path[1] \o "/" \o path[2] >>

Restrict(f, S) == [ x \in S |-> f[x] ]

\* The documentation trees a run can start from: the generated API page, the
\* navigation manifest and the types file are there; each module page, the
\* architecture overview and the performance page is there or not.
OptionalPages == { ModuleDocPath(m) : m \in Modules } \cup { OverviewPath, PerfPath }
AllFiles ==
    [ q \in OptionalPages \cup { ApiPagePath, DocsConfigPath, TypesPath } |->
        CASE q = TypesPath -> << "declare namespace Modules.Contracts.Contracts.Sales" >>
          [] q = DocsConfigPath -> << "navigation" >>
          [] OTHER -> PageBefore(q) ]
InitialTrees ==
    { Restrict(AllFiles, DOMAIN AllFiles \ absent) : absent \in SUBSET OptionalPages }

\* The duplicate-free sequences of module names (the watcher joins a Set, the
\* workflow pipes through sort -u).
RECURSIVE Arrangements(_)
Arrangements(S) ==
    IF S = {} THEN { << >> }
    ELSE UNION { { <<m>> \o rest : rest \in Arrangements(S \ {m}) } : m \in S }
ModuleLists == UNION { Arrangements(S) : S \in SUBSET Modules }

\* process.env: a function from the names that are set to their values.  The
\* value of CHANGED_MODULES is the sequence of its lines ('' is one empty line).
Env(name, values) == { << >> } \cup { name :> v : v \in values }
Environments ==
    { k @@ c @@ t :
        k \in Env("ANTHROPIC_API_KEY", {"", "sk-ant-api03"}),
        c \in Env("CHANGED_MODULES", { <<"">> } \cup (ModuleLists \ { << >> })),
        t \in Env("TYPES_CHANGED", {"", "true"}) }
Arguments == { << >>, <<"--test">> }

\* process.env.NAME as a condition: set, and not ''
IsSet(e, name) == name \in DOMAIN e /\ e[name] # ""

\* String.split('\n') of a value held as its lines, then .filter(Boolean)
FilterBoolean(lines) == SelectSeq(lines, LAMBDA l : l # "")

\* What callClaude returns: the reply's text, or null.
Null == [ type |-> "null", value |-> << >> ]
String(text) == [ type |-> "string", value |-> text ]
Truthy(v) == v.type = "string" /\ v.value # << >>

\* The part of the run a request or a file operation belongs to.
Step(task, index) == [ task |-> task, index |-> index ]

Pending == [ status |-> 0, text |-> << >> ]
Ok(text) == [ status |-> 200, text |-> text ]
Rejection(status) == [ status |-> status, text |-> << >> ]
RateLimitStatus == 429
FailureStatuses == { 401, 500 }

\* The process and what it has done: the value the steps below transform.
World ==
    [ files |-> files, fileOps |-> fileOps, requests |-> requests,
      enhancer |-> enhancer, now |-> now ]

Becomes(w) ==
    /\ files' = w.files
    /\ fileOps' = w.fileOps
    /\ requests' = w.requests
    /\ enhancer' = w.enhancer
    /\ now' = w.now

Log(w, line) == [ w EXCEPT !.enhancer.console = Append(@, line) ]
At(w, step) == [ w EXCEPT !.enhancer.step = step ]
Exit(w, code, error) ==
    [ w EXCEPT !.enhancer.pc = "exited", !.enhancer.exitCode = code, !.enhancer.error = error ]

\* fs.readFileSync / fs.readdirSync, fs.writeFileSync
Read(w, path) ==
    [ w EXCEPT !.fileOps = Append(@, [ op |-> "read", path |-> path, step |-> w.enhancer.step ]) ]
writeFileSync(w, path, content) ==
    [ w EXCEPT !.files = Put(@, path, content),
               !.fileOps = Append(@, [ op |-> "write", path |-> path, step |-> w.enhancer.step ]) ]

\* this.anthropic.messages.create(...): the request leaves and the process awaits.
Create(w, prompt) ==
    [ w EXCEPT !.requests = Append(@, [ prompt |-> prompt, step |-> w.enhancer.step,
                                        at |-> w.now, answer |-> Pending ]),
               !.enhancer.pc = "awaiting",
               !.enhancer.prompt = prompt ]

\* The answer to the request in flight (the latest one) arrives.
Answered(w, answer) == [ w EXCEPT !.requests[Len(w.requests)].answer = answer ]

Prompt(task, moduleName, analysis, currentDoc) ==
    [ task |-> task, moduleName |-> moduleName, analysis |-> analysis, currentDoc |-> currentDoc ]
ProbePrompt == Prompt("probe", "", << >>, << >>)

\* The texts the service can answer a prompt with.
Replies(prompt) ==
    CASE prompt.task = "probe" -> { <<"Connection successful!">> }
      [] prompt.task = "module" ->
            { prompt.currentDoc \o <<"advanced usage examples">>, <<"rewritten documentation">>, << >> }
      [] prompt.task = "insights" -> { <<"architecture insights">>, << >> }
      [] prompt.task = "performance" -> { <<"performance recommendations">>, << >> }

\* main().catch(console.error): the rejection is printed, the process ends normally.
Rejected(w, error) == Exit(Log(w, error), 0, error)

KeyRequired == "ANTHROPIC_API_KEY is required"
UnableToConnect == "Unable to connect to Anthropic API. Check your API key."

TestMode == \E i \in 1..Len(process.argv) : process.argv[i] = "--test"

constructor(w) ==
    Log([ w EXCEPT !.enhancer.this =
            [ changedModules |-> IF "CHANGED_MODULES" \in DOMAIN process.env
                                 THEN FilterBoolean(process.env["CHANGED_MODULES"])
                                 ELSE << >>,
              typesChanged |-> IsSet(process.env, "TYPES_CHANGED") ] ],
        "AI Documentation Enhancer initialized")

testConnection(w) ==
    Create(Log(At(w, Step("probe", 0)), "Testing Anthropic API connection..."), ProbePrompt)

enhanceDocumentation(w) ==
    testConnection(Log(w, "Starting AI-powered documentation enhancement..."))

\* The application's modules (agves_app/src/modules) that analyzeModuleCode finds.
SourceModules == {"sales", "school"}
ModuleSourcePath(moduleName) == <<"agves_app", "src/modules/" \o moduleName>>

analyzeModuleCode(moduleName) ==
    IF moduleName \in SourceModules
    THEN << "entities of " \o moduleName >>
    ELSE << "error: Module not found" >>

readModuleDoc_orTemplate(fs, moduleName) ==
    IF existsSync(fs, ModuleDocPath(moduleName)) THEN fs[ModuleDocPath(moduleName)]
    ELSE << "# " \o moduleName >>

readModuleDoc(fs, moduleName) ==
    IF existsSync(fs, ModuleDocPath(moduleName)) THEN fs[ModuleDocPath(moduleName)] ELSE << >>

writeModuleDoc_intoOverview(w, moduleName, content) ==
    writeFileSync(w, <<"modules", "overview.mdx">>, content)

writeModuleDoc(w, moduleName, content) == writeFileSync(w, ModuleDocPath(moduleName), content)

InsightsHeading == "\n\n## AI-Generated Insights\n\n"

enhanceArchitectureOverview_overwrites(w, insights) ==
    IF ~Truthy(insights) THEN w
    ELSE IF existsSync(w.files, OverviewPath)
         THEN Log(writeFileSync(Read(w, OverviewPath), OverviewPath,
                                <<InsightsHeading>> \o insights.value),
                  "Enhanced architecture overview with AI insights")
         ELSE w

enhanceArchitectureOverview(w, insights) ==
    IF ~Truthy(insights) THEN w
    ELSE IF existsSync(w.files, OverviewPath)
         THEN Log(writeFileSync(Read(w, OverviewPath), OverviewPath,
                                w.files[OverviewPath] \o <<InsightsHeading>> \o insights.value),
                  "Enhanced architecture overview with AI insights")
         ELSE w

PerfPage(recommendations) ==
    << "title: Performance Recommendations", "# Performance Optimization Guide" >>
        \o recommendations

addPerformanceSection(w, recommendations) ==
    IF ~Truthy(recommendations) THEN w
    ELSE Log(writeFileSync(w, PerfPath, PerfPage(recommendations.value)),
             "Created AI-generated performance recommendations")

\* callClaude, up to the await of the request
callClaude(w, prompt) == Create(w, prompt)

\* updateOverviewPages, up to the await in generateArchitectureInsights
updateOverviewPages(w) ==
    callClaude(Read(Log(At(w, Step("insights", 0)), "Updating overview pages with AI insights..."),
                    <<"agves_app", "src/modules">>),
               Prompt("insights", "", <<"codebase analysis">>, << >>))

\* updateOverviewPages, from the insights to the await in generatePerformanceRecommendations
AfterInsights(w, insights) ==
    callClaude(At(IF Truthy(insights) THEN enhanceArchitectureOverview(w, insights) ELSE w,
                  Step("performance", 0)),
               Prompt("performance", "", << >>, << >>))

\* updateOverviewPages, from the recommendations to the end of enhanceDocumentation
AfterRecommendations(w, recommendations) ==
    Exit(Log(IF Truthy(recommendations) THEN addPerformanceSection(w, recommendations) ELSE w,
             "AI enhancement completed successfully!"),
         0, "")

\* for (const module of this.changedModules), from its i-th round on, up to the
\* next await: a module without a page is skipped, the others are sent to Claude.
RECURSIVE ModuleLoop(_, _)
enhanceModuleDocumentation(w, i) ==
    LET moduleName == w.enhancer.this.changedModules[i]
        w1 == Log(At(w, Step("module", i)), "Enhancing module documentation: " \o moduleName)
        w2 == IF moduleName \in SourceModules THEN Read(w1, ModuleSourcePath(moduleName)) ELSE w1
        currentDoc == readModuleDoc(w.files, moduleName)
        w3 == IF existsSync(w.files, ModuleDocPath(moduleName))
              THEN Read(w2, ModuleDocPath(moduleName)) ELSE w2
    IN  IF currentDoc = << >>
        THEN ModuleLoop(Log(w3, "No existing documentation found, skipping: " \o moduleName), i + 1)
        ELSE callClaude(w3, Prompt("module", moduleName, analyzeModuleCode(moduleName), currentDoc))

ModuleLoop(w, i) ==
    IF i > Len(w.enhancer.this.changedModules)
    THEN updateOverviewPages(w)
    ELSE enhanceModuleDocumentation(w, i)

\* enhanceModuleDocumentation, from the answer of callClaude on
AfterModule(w, enhancedDoc) ==
    LET i == w.enhancer.step.index
        moduleName == w.enhancer.this.changedModules[i]
    IN  ModuleLoop(IF Truthy(enhancedDoc)
                   THEN Log(writeModuleDoc(w, moduleName, enhancedDoc.value),
                            "Enhanced module documentation: " \o moduleName)
                   ELSE w,
                   i + 1)

\* updateApiDocumentation: reads the types file and lists the API pages of the
\* modules it declares; writes nothing.
updateApiDocumentation(w) ==
    LET w1 == Log(w, "Updating API documentation based on type changes...")
    IN  IF existsSync(w.files, TypesPath)
        THEN Read(Read(w1, TypesPath), <<"api-reference", "sales">>)
        ELSE w1

\* testConnection after the reply, then enhanceDocumentation up to its next
\* await; under --test, the end of the script's testConnection.
ConnectionTested(w) ==
    LET w1 == Log(w, "Anthropic API connection successful!")
    IN  IF TestMode THEN Exit(Log(w1, "Connection test successful!"), 0, "")
        ELSE ModuleLoop(IF w.enhancer.this.typesChanged THEN updateApiDocumentation(w1) ELSE w1, 1)

ConnectionFailed_goesOn(w) ==
    LET w1 == Log(w, "Anthropic API connection failed")
    IN  IF TestMode THEN Exit(Log(w1, "Connection test failed"), 1, UnableToConnect)
        ELSE ModuleLoop(w1, 1)

\* The catch of testConnection throws; enhanceDocumentation logs and rethrows,
\* and main's promise is rejected.  Under --test the script calls process.exit(1).
ConnectionFailed(w) ==
    LET w1 == Log(w, "Anthropic API connection failed")
    IN  IF TestMode THEN Exit(Log(w1, "Connection test failed"), 1, UnableToConnect)
        ELSE Rejected(Log(w1, "AI enhancement failed"), UnableToConnect)

\* The value callClaude returns goes to the caller that awaits it.
Return(w, value) ==
    CASE w.enhancer.step.task = "module" -> AfterModule(w, value)
      [] w.enhancer.step.task = "insights" -> AfterInsights(w, value)
      [] w.enhancer.step.task = "performance" -> AfterRecommendations(w, value)

Caught_rethrows(w, status) ==
    LET w1 == Log(w, "Claude API call failed")
    IN  IF status = RateLimitStatus
        THEN [ Log(w1, "Rate limited, waiting 60 seconds...") EXCEPT !.enhancer.pc = "backoff" ]
        ELSE Rejected(Log(w1, "AI enhancement failed"), "API error")

\* The catch of callClaude: a rate limit waits for the backoff timer, any other
\* error returns null.
Caught(w, status) ==
    LET w1 == Log(w, "Claude API call failed")
    IN  IF status = RateLimitStatus
        THEN [ Log(w1, "Rate limited, waiting 60 seconds...") EXCEPT !.enhancer.pc = "backoff" ]
        ELSE Return(w1, Null)

main_withoutKeyCheck(w) ==
    IF TestMode THEN testConnection(constructor(w))
    ELSE enhanceDocumentation(constructor(w))

main(w) ==
    IF ~IsSet(process.env, "ANTHROPIC_API_KEY")
    THEN IF TestMode THEN Exit(Log(w, "Connection test failed"), 1, KeyRequired)
         ELSE Rejected(w, KeyRequired)
    ELSE IF TestMode THEN testConnection(constructor(w))
         ELSE enhanceDocumentation(constructor(w))

RateLimitedSoFar == Cardinality({ i \in 1..Len(requests) : requests[i].answer.status = RateLimitStatus })

EnhancerInit ==
    /\ pendingChanges = {}
    /\ isProcessing = FALSE
    /\ debounceTimeout = 0
    /\ timers = {}
    /\ intervalRemaining = IntervalTicks
    /\ running = {}
    /\ env = [ CHANGED_MODULES |-> {}, TYPES_CHANGED |-> "" ]
    /\ lastFlush = [ trigger |-> "none", outcome |-> "none" ]
    /\ sinceSnapshot = {}
    /\ process \in [ env : Environments, argv : Arguments ]
    /\ files \in InitialTrees
    /\ filesAtStart = files
    /\ enhancer = [ pc |-> "start", step |-> Step("main", 0), prompt |-> ProbePrompt,
                    this |-> [ changedModules |-> << >>, typesChanged |-> FALSE ],
                    console |-> << >>, exitCode |-> 0, error |-> "" ]
    /\ requests = << >>
    /\ fileOps = << >>
    /\ now = 0
    /\ NoGeneratorProcess
    /\ NoDetectorInput
    /\ NoPipelineRun

\* node scripts/enhance-with-ai.js [--test]: the script runs to its first await
\* or to its end.
Main ==
    /\ enhancer.pc = "start"
    /\ Becomes(main(World))
    /\ UNCHANGED <<process, filesAtStart, watcherVars, generatorVars, detectorVars, pipelineVars>>

\* The service answers the request in flight with a text.
Respond ==
    /\ enhancer.pc = "awaiting"
    /\ \E text \in Replies(enhancer.prompt) :
          Becomes(IF enhancer.step.task = "probe"
                  THEN ConnectionTested(Answered(World, Ok(text)))
                  ELSE Return(Answered(World, Ok(text)), String(text)))
    /\ UNCHANGED <<process, filesAtStart, watcherVars, generatorVars, detectorVars, pipelineVars>>

\* The service answers the request in flight with HTTP 429.
RateLimit ==
    /\ enhancer.pc = "awaiting"
    /\ RateLimitedSoFar < MaxRateLimited
    /\ Becomes(IF enhancer.step.task = "probe"
               THEN ConnectionFailed(Answered(World, Rejection(RateLimitStatus)))
               ELSE Caught(Answered(World, Rejection(RateLimitStatus)), RateLimitStatus))
    /\ UNCHANGED <<process, filesAtStart, watcherVars, generatorVars, detectorVars, pipelineVars>>

\* The request in flight fails with another status.
Fail ==
    /\ enhancer.pc = "awaiting"
    /\ \E status \in FailureStatuses :
          Becomes(IF enhancer.step.task = "probe"
                  THEN ConnectionFailed(Answered(World, Rejection(status)))
                  ELSE Caught(Answered(World, Rejection(status)), status))
    /\ UNCHANGED <<process, filesAtStart, watcherVars, generatorVars, detectorVars, pipelineVars>>

BackoffElapsed_withoutWaiting ==
    /\ enhancer.pc = "backoff"
    /\ Becomes(callClaude(World, enhancer.prompt))
    /\ UNCHANGED <<process, filesAtStart, watcherVars, generatorVars, detectorVars, pipelineVars>>

\* setTimeout(resolve, 60000) fires: return this.callClaude(prompt)
BackoffElapsed ==
    /\ enhancer.pc = "backoff"
    /\ Becomes(callClaude([ World EXCEPT !.now = @ + RetryDelayMs ], enhancer.prompt))
    /\ UNCHANGED <<process, filesAtStart, watcherVars, generatorVars, detectorVars, pipelineVars>>

EnhancerNext ==
    \/ Main
    \/ Respond
    \/ RateLimit
    \/ Fail
    \/ BackoffElapsed

EnhancerSpec == EnhancerInit /\ [][EnhancerNext]_vars

----------------------------------------------------------------------------
(* Properties of the enhancer *)

\* The requests and the writes that belong to one part of the run.
RequestsOf(step) == { i \in 1..Len(requests) : requests[i].step = step }
WritesOf(step) == { i \in 1..Len(fileOps) : fileOps[i].op = "write" /\ fileOps[i].step = step }
Writes == { i \in 1..Len(fileOps) : fileOps[i].op = "write" }

\* The k-th request of a part of the run (1 is the first one sent).
Nth(step, k) ==
    requests[CHOOSE i \in RequestsOf(step) : Cardinality({ j \in RequestsOf(step) : j <= i }) = k]

HasText(answer) == answer.status = 200 /\ answer.text # << >>
IsFailure(answer) == answer.status \in FailureStatuses

ChangedModules == enhancer.this.changedModules
ModuleSteps == { Step("module", i) : i \in 1..Len(ChangedModules) }
ModuleOf(step) == ChangedModules[step.index]

EnhancerPrinted(line) == \E i \in 1..Len(enhancer.console) : enhancer.console[i] = line
Waiting == enhancer.pc \in {"awaiting", "backoff"}

\* The loop has reached the i-th changed module; the overview step has begun.
Attempted(i) == EnhancerPrinted("Enhancing module documentation: " \o ChangedModules[i])
OverviewAttempted == RequestsOf(Step("insights", 0)) # {}

\* From the i-th module on, the run went on or is waiting on the way there.
GoesOnAfter(i) ==
    /\ \A j \in (i + 1)..Len(ChangedModules) :
          Attempted(j) \/ (Waiting /\ enhancer.step.task = "module" /\ enhancer.step.index < j)
    /\ OverviewAttempted \/ (Waiting /\ enhancer.step.task = "module")

\* C11: callClaude sends at most two requests for a prompt: after a
\* rate-limited retry it neither waits nor sends again, but returns no content.
C11_AtMostTwoRequestsPerCall ==
    /\ \A i \in 1..Len(requests) : Cardinality(RequestsOf(requests[i].step)) <= 2
    /\ enhancer.pc = "backoff" => Cardinality(RequestsOf(enhancer.step)) = 1

\* A module's call whose first request was rate limited and whose retry was
\* answered with a text.
RetrySucceeded(step) ==
    /\ Cardinality(RequestsOf(step)) >= 2
    /\ Nth(step, 1).answer.status = RateLimitStatus
    /\ HasText(Nth(step, 2).answer)

\* C12: when the first request for a module page is answered 429 and the next
\* one with a text, the second request is the only retry, carries the same
\* prompt and leaves one backoff interval after the first, and the page is
\* written exactly once, with the text of the second answer.
C12_RetryOnceThenWrite ==
    \A step \in ModuleSteps :
        RetrySucceeded(step) =>
            /\ Cardinality(RequestsOf(step)) = 2
            /\ Nth(step, 2).prompt = Nth(step, 1).prompt
            /\ Nth(step, 2).at = Nth(step, 1).at + RetryDelayMs
            /\ Cardinality(WritesOf(step)) = 1
            /\ \A i \in WritesOf(step) : fileOps[i].path = ModuleDocPath(ModuleOf(step))
            /\ files[ModuleDocPath(ModuleOf(step))] = Nth(step, 2).answer.text

C12_Witness ==
    \E step \in ModuleSteps :
        /\ RetrySucceeded(step)
        /\ WritesOf(step) # {}
        /\ files[ModuleDocPath(ModuleOf(step))] # filesAtStart[ModuleDocPath(ModuleOf(step))]

\* A request of a module's call failed with a status other than 429.
FailedFor(step) == \E i \in RequestsOf(step) : IsFailure(requests[i].answer)

\* C13: after a request for a module has failed with a status other than 429
\* (the probe having succeeded), the run has not ended with an error, that
\* module's call has written nothing and its page is as it was, and the loop
\* has gone on to the modules after it and to the overview step.
C13_FailureStaysInsideLoop ==
    \A step \in ModuleSteps :
        FailedFor(step) =>
            /\ enhancer.error = ""
            /\ WritesOf(step) = {}
            /\ files[ModuleDocPath(ModuleOf(step))] = filesAtStart[ModuleDocPath(ModuleOf(step))]
            /\ enhancer.step # step
            /\ GoesOnAfter(step.index)

C13_Witness ==
    \E step \in ModuleSteps :
        /\ FailedFor(step)
        /\ step.index < Len(ChangedModules)
        /\ RequestsOf(Step("module", step.index + 1)) # {}
        /\ enhancer.pc = "exited"
        /\ OverviewAttempted

\* C14: without ANTHROPIC_API_KEY the process ends in the constructor, with the
\* error that names the missing key, having sent no request and having read
\* and written no file.
C14_MissingKeyFailsFast ==
    (~IsSet(process.env, "ANTHROPIC_API_KEY") /\ enhancer.pc # "start") =>
        /\ enhancer.pc = "exited"
        /\ enhancer.error = KeyRequired
        /\ requests = << >>
        /\ fileOps = << >>
        /\ files = filesAtStart

C14_Witness ==
    /\ ~IsSet(process.env, "ANTHROPIC_API_KEY")
    /\ ~TestMode
    /\ "CHANGED_MODULES" \in DOMAIN process.env
    /\ enhancer.pc = "exited"
    /\ enhancer.error = KeyRequired

ProbeFailed == requests # << >> /\ requests[1].answer.status \notin {Pending.status, Ok(<< >>).status}

\* C15: the first request of a run is the connectivity probe, and only that one
\* is a probe; when the probe fails (whatever the status), the run ends with
\* the connection error, the probe is the only request sent and no file has
\* been written.
C15_ProbeFirstAndFatal ==
    /\ \A i \in 1..Len(requests) : (requests[i].prompt = ProbePrompt) <=> (i = 1)
    /\ ProbeFailed =>
          /\ enhancer.pc = "exited"
          /\ enhancer.error = UnableToConnect
          /\ Len(requests) = 1
          /\ Writes = {}
          /\ files = filesAtStart

C15_Witness ==
    /\ ProbeFailed
    /\ ~TestMode
    /\ ChangedModules # << >>
    /\ \E i \in 1..Len(ChangedModules) : existsSync(files, ModuleDocPath(ChangedModules[i]))
    /\ enhancer.pc = "exited"

\* The loop has reached a changed module that has no page.
ReachedWithoutPage(i) == Attempted(i) /\ ~existsSync(filesAtStart, ModuleDocPath(ChangedModules[i]))

\* C16: once the loop has reached a changed module without a page, no request
\* has been or will be sent for it, its round has written nothing and its
\* page still does not exist, the run has not ended with an error, and the
\* loop has gone on to the modules after it and to the overview step.
C16_ModuleWithoutPageIsSkipped ==
    \A i \in 1..Len(ChangedModules) :
        ReachedWithoutPage(i) =>
            /\ RequestsOf(Step("module", i)) = {}
            /\ WritesOf(Step("module", i)) = {}
            /\ ~existsSync(files, ModuleDocPath(ChangedModules[i]))
            /\ enhancer.error = ""
            /\ EnhancerPrinted("No existing documentation found, skipping: " \o ChangedModules[i])
            /\ enhancer.step # Step("module", i)
            /\ GoesOnAfter(i)

C16_Witness ==
    \E i \in 1..Len(ChangedModules) :
        /\ ReachedWithoutPage(i)
        /\ i < Len(ChangedModules)
        /\ RequestsOf(Step("module", i + 1)) # {}
        /\ enhancer.pc = "exited"

\* C17: every file the run has written existed when the run started.
C17_WritesOnlyExistingPages ==
    \A i \in Writes : existsSync(filesAtStart, fileOps[i].path)

\* One text stands, piece for piece, inside another.
Contains(whole, part) ==
    \E k \in 0..(Len(whole) - Len(part)) : SubSeq(whole, k + 1, k + Len(part)) = part

\* C18: for every path the run has written, either the generator never writes
\* that path, or the content the generator left there stands verbatim inside
\* the content the enhancer wrote.
C18_GeneratorContentPreserved ==
    \A i \in Writes :
        \/ ~GeneratorWrites(fileOps[i].path)
        \/ /\ existsSync(filesAtStart, fileOps[i].path)
           /\ Contains(files[fileOps[i].path], filesAtStart[fileOps[i].path])

\* The overview step is over: the call for the insights has returned.
InsightsReturned == RequestsOf(Step("performance", 0)) # {}
Insights == Nth(Step("insights", 0), Cardinality(RequestsOf(Step("insights", 0)))).answer
OverviewWrites == { i \in Writes : fileOps[i].path = OverviewPath }

\* C19: once the call for the insights has returned: if it returned a text and
\* the overview page existed, the page is its previous content, then the
\* "AI-Generated Insights" heading, then the text, written once; otherwise
\* the step has written nothing and the page is as it was (or still missing).
C19_OverviewIsAppendedTo ==
    InsightsReturned =>
        IF HasText(Insights) /\ existsSync(filesAtStart, OverviewPath)
        THEN /\ files[OverviewPath] =
                    filesAtStart[OverviewPath] \o <<InsightsHeading>> \o Insights.text
             /\ Cardinality(OverviewWrites) = 1
             /\ WritesOf(Step("insights", 0)) = OverviewWrites
        ELSE /\ WritesOf(Step("insights", 0)) = {}
             /\ OverviewWrites = {}
             /\ existsSync(files, OverviewPath) <=> existsSync(filesAtStart, OverviewPath)
             /\ existsSync(files, OverviewPath) => files[OverviewPath] = filesAtStart[OverviewPath]

C19_Witness ==
    /\ InsightsReturned
    /\ HasText(Insights)
    /\ existsSync(filesAtStart, OverviewPath)
    /\ Contains(files[OverviewPath], <<InsightsHeading>>)

\* The step answers the request of a module's call.
AnswersModule == enhancer.pc = "awaiting" /\ enhancer.step.task = "module" /\ requests' # requests
ModuleAnswer == requests'[Len(requests)].answer
ModulePage == ModuleDocPath(ModuleOf(enhancer.step))

\* C20: the step in which a module's call is answered with a text leaves that
\* module's page holding exactly the text, by one write, and leaves every other
\* file (module pages, API pages, the navigation manifest) as it was; a step
\* that answers it otherwise changes no file at all.
C20_WritesExactlyTheModulePage ==
    [][ AnswersModule =>
          IF HasText(ModuleAnswer)
          THEN /\ files' = Put(files, ModulePage, ModuleAnswer.text)
               /\ Len(fileOps') > Len(fileOps)
               /\ { i \in (Len(fileOps) + 1)..Len(fileOps') : fileOps'[i].op = "write" }
                     = { Len(fileOps) + 1 }
               /\ fileOps'[Len(fileOps) + 1].path = ModulePage
          ELSE files' = files ]_vars

C20_Witness ==
    \E step \in ModuleSteps :
        /\ \E i \in RequestsOf(step) : HasText(requests[i].answer)
        /\ files[ModuleDocPath(ModuleOf(step))] # filesAtStart[ModuleDocPath(ModuleOf(step))]
        /\ \E m \in Modules : /\ m # ModuleOf(step)
                              /\ existsSync(files, ModuleDocPath(m))

(***************************************************************************)
(* The generator (generate-docs.js): one run writes the documentation tree *)
(* from config.modules, one step after the other, and rewrites the API     *)
(* Reference tab of the navigation manifest.  Any call of fs can fail.     *)
(***************************************************************************)

\* How many times the generator is run in succession, and how many calls of
\* fs fail over these runs.
MaxRuns == 2
MaxIoErrors == 1

\* config.modules: the modules in their declared order, each with its entities
\* in their declared order.  The names and flags are those of the script's
\* configuration; the lists vary.
ConfigNames == {"authorization", "sales"}
ConfigEntities(name) ==
    IF name = "authorization" THEN {"permission"} ELSE {"cart", "order"}
Descriptor(name, entities) ==
    [ name |-> name, entities |-> entities,
      hasServices |-> (name = "authorization"), hasTests |-> (name = "authorization") ]
EntityLists(name) == UNION { Arrangements(S) : S \in SUBSET ConfigEntities(name) }
RECURSIVE Describe(_)
Describe(names) ==
    IF names = << >> THEN { << >> }
    ELSE { << Descriptor(names[1], entities) >> \o rest :
             entities \in EntityLists(names[1]), rest \in Describe(Tail(names)) }
Configurations ==
    UNION { Describe(names) : names \in UNION { Arrangements(S) : S \in SUBSET ConfigNames } }

\* name.charAt(0).toUpperCase() + name.slice(1)
Capitalize(name) ==
    CASE name = "authorization" -> "Authorization"
      [] name = "sales" -> "Sales"
      [] OTHER -> name

\* The paths of the tree.  A page that the manifest refers to as a/b is the file
\* a/b.mdx.
ModulesOverviewPath == <<"modules", "overview.mdx">>
EntitySystemPath == <<"architecture", "entity-system.mdx">>
DependencyInjectionPath == <<"architecture", "dependency-injection.mdx">>
ComponentsOverviewPath == <<"components", "overview.mdx">>
ApiIntroductionPath == <<"api-reference", "introduction.mdx">>
AuthenticationPath == <<"api-reference", "authentication.mdx">>
IntroductionPath == <<"introduction.mdx">>
EntityApiPath(moduleName, entity) == <<"api-reference", moduleName, entity \o ".mdx">>
PageFile(page) == [ page EXCEPT ![Len(page)] = @ \o ".mdx" ]

\* What a directory holds in the tree.
Directory == << "(directory)" >>

\* The texts the generator writes.  The parts that depend on config.modules are
\* kept: the counts, the names, the flags; the rest of each template is one
\* piece.
ModuleCount_fromTheScript(modules) == ToString(Cardinality(GeneratorModules))
ModuleCount(modules) == ToString(Len(modules))
EntityCount(module) == ToString(Len(module.entities))

\* The lines that report a count, for the count's text.
EntitySystemCard(module, count) ==
    Capitalize(module.name) \o " Module: " \o count \o " entities"
ModulesHeadline(count) == count \o " core business modules"
ModuleCard(module, count) ==
    Capitalize(module.name) \o " Module: " \o count \o " entities, "
    \o (IF module.hasServices THEN "Has services" ELSE "No services") \o ", "
    \o (IF module.hasTests THEN "Has tests" ELSE "No tests")
ApiHeadline(count) == "across " \o count \o " modules"
ApiCard(module, count) ==
    Capitalize(module.name) \o " API: " \o count \o " entities available"

architectureOverview == << "Architecture Overview" >>
entitySystemDoc(modules) ==
    << "Entity System Architecture" >>
    \o [ i \in 1..Len(modules) |-> EntitySystemCard(modules[i], EntityCount(modules[i])) ]
diDoc == << "Dependency Injection" >>
modulesOverview(modules) ==
    << "Business Modules Overview", ModulesHeadline(ModuleCount(modules)) >>
    \o [ i \in 1..Len(modules) |-> ModuleCard(modules[i], EntityCount(modules[i])) ]
moduleDoc(module) ==
    << Capitalize(module.name) \o " Module" >>
    \o [ i \in 1..Len(module.entities) |->
           "/api-reference/" \o module.name \o "/" \o module.entities[i] ]
componentsOverview == << "Components Overview" >>
apiIntroduction(modules) ==
    << "API Introduction", ApiHeadline(ModuleCount(modules)) >>
    \o [ i \in 1..Len(modules) |-> ApiCard(modules[i], EntityCount(modules[i])) ]
generateEntityApiDoc(moduleName, entity) == << "API " \o moduleName \o "/" \o entity >>

\* docs.json.  Its text is a layout and the value it denotes; JSON.parse
\* gives the value of a text that is JSON, JSON.stringify(value, null, 2) the
\* text of the value indented by two spaces.
Json(layout, value) == [ layout |-> layout, value |-> value ]
NotJson == Json("not JSON", [ navigation |-> FALSE, tabs |-> << >> ])
IsJson(text) == text.layout # "not JSON"
JsonParse(text) == text.value
JsonStringify(value) == Json("2 spaces", value)

Group(name, pages) == [ group |-> name, pages |-> pages ]
Tab(name, groups) == [ tab |-> name, groups |-> groups ]
DocumentationTab ==
    Tab("Documentation",
        << Group("Get Started", << <<"introduction">> >>),
           Group("Architecture", << <<"architecture", "overview">> >>),
           Group("Business Modules", << <<"modules", "overview">> >>) >>)
CommittedApiTab ==
    Tab("API Reference",
        << Group("Getting Started", << <<"api-reference", "introduction">> >>) >>)
Navigation(tabs) == [ navigation |-> TRUE, tabs |-> tabs ]
Manifests ==
    { Json("as committed", Navigation(<< DocumentationTab, CommittedApiTab >>)),
      Json("as committed", Navigation(<< DocumentationTab >>)),
      Json("as committed", [ navigation |-> FALSE, tabs |-> << >> ]),
      NotJson }

\* The trees a first run can start from: the hand-written introduction is
\* there; docs.json is one of the manifests or is missing; beside a manifest
\* with both tabs the hand-written authentication page is there or not.
GeneratorTrees ==
    { (IntroductionPath :> << "Introduction" >>) @@ manifest :
        manifest \in { << >> } \cup { DocsConfigPath :> m : m \in Manifests } }
    \cup { (IntroductionPath :> << "Introduction" >>)
           @@ (DocsConfigPath :> Json("as committed", Navigation(<< DocumentationTab, CommittedApiTab >>)))
           @@ (AuthenticationPath :> << "Authentication" >>) }

\* A call of fs that changes the tree, and the tree after the first n of a
\* step's calls.
Mkdir(path) == [ fn |-> "mkdirSync", path |-> path, data |-> Directory ]
WriteFile(path, data) == [ fn |-> "writeFileSync", path |-> path, data |-> data ]
RECURSIVE After(_, _, _)
After(fs, calls, n) ==
    IF n = 0 THEN fs
    ELSE Put(After(fs, calls, n - 1), calls[n].path, calls[n].data)
RECURSIVE Flatten(_)
Flatten(lists) == IF lists = << >> THEN << >> ELSE Head(lists) \o Flatten(Tail(lists))
Written(calls, n) ==
    LET done == SubSeq(calls, 1, n)
    IN  [ i \in 1..Len(SelectSeq(done, LAMBDA c : c.fn = "writeFileSync")) |->
            SelectSeq(done, LAMBDA c : c.fn = "writeFileSync")[i].path ]

\* The calls of each step, in the order the step makes them.
createDirectoryStructure(fs, modules) ==
    LET dirs == << <<"architecture">>, <<"frontend">>, <<"backend">>, <<"modules">>,
                   <<"components">>, <<"testing">>, <<"api-reference">> >>
                \o Flatten([ i \in 1..Len(modules) |->
                       << <<"modules", modules[i].name>>,
                          <<"api-reference", modules[i].name>> >> ])
        missing == SelectSeq(dirs, LAMBDA dir : ~existsSync(fs, dir))
    IN  [ i \in 1..Len(missing) |-> Mkdir(missing[i]) ]
generateArchitectureDocs(modules) ==
    << WriteFile(OverviewPath, architectureOverview),
       WriteFile(EntitySystemPath, entitySystemDoc(modules)),
       WriteFile(DependencyInjectionPath, diDoc) >>
generateModuleDocs_overviewOnly(modules) ==
    << WriteFile(ModulesOverviewPath, modulesOverview(modules)) >>
generateModuleDocs(modules) ==
    << WriteFile(ModulesOverviewPath, modulesOverview(modules)) >>
    \o [ i \in 1..Len(modules) |->
           WriteFile(ModuleDocPath(modules[i].name), moduleDoc(modules[i])) ]
generateComponentDocs ==
    << WriteFile(ComponentsOverviewPath, componentsOverview) >>
generateApiReference(modules) ==
    << WriteFile(ApiIntroductionPath, apiIntroduction(modules)) >>
    \o Flatten([ i \in 1..Len(modules) |->
           [ j \in 1..Len(modules[i].entities) |->
               WriteFile(EntityApiPath(modules[i].name, modules[i].entities[j]),
                         generateEntityApiDoc(modules[i].name, modules[i].entities[j])) ] ])

\* The groups updateDocsConfig gives the API Reference tab, and the manifest
\* with them.
ApiGroups(modules) ==
    << Group("API Documentation",
             << <<"api-reference", "introduction">>, <<"api-reference", "authentication">> >>) >>
    \o [ i \in 1..Len(modules) |->
           Group(Capitalize(modules[i].name),
                 [ j \in 1..Len(modules[i].entities) |->
                     <<"api-reference", modules[i].name, modules[i].entities[j]>> ]) ]
HasApiTab(docsConfig) == \E i \in 1..Len(docsConfig.tabs) : docsConfig.tabs[i].tab = "API Reference"
ApiTabIndex(docsConfig) ==
    CHOOSE i \in 1..Len(docsConfig.tabs) :
        /\ docsConfig.tabs[i].tab = "API Reference"
        /\ \A j \in 1..(i - 1) : docsConfig.tabs[j].tab # "API Reference"
WithApiGroups_appended(docsConfig, modules) ==
    [ docsConfig EXCEPT !.tabs[ApiTabIndex(docsConfig)].groups = @ \o ApiGroups(modules) ]
WithApiGroups(docsConfig, modules) ==
    [ docsConfig EXCEPT !.tabs[ApiTabIndex(docsConfig)].groups = ApiGroups(modules) ]

\* The steps of generateAllDocs in their order.
GeneratorSteps ==
    << "createDirectoryStructure", "generateArchitectureDocs", "generateModuleDocs",
       "generateComponentDocs", "generateApiReference", "updateDocsConfig" >>
StepAfter(step) ==
    GeneratorSteps[(CHOOSE i \in 1..Len(GeneratorSteps) : GeneratorSteps[i] = step) + 1]

\* The generator process after a step: it goes on, or it leaves.  ran keeps
\* the steps the run has entered, errors the steps in which a call of fs threw,
\* finished, for each run that ended, its exit code, console, writes and tree.
Entered(g) == [ g EXCEPT !.ran = Append(@, g.pc) ]
IoError(g) == [ g EXCEPT !.errors = Append(@, g.pc), !.ioErrors = @ + 1 ]
NoSuchFile(g) == [ g EXCEPT !.errors = Append(@, g.pc) ]
GeneratorLog(g, line) == [ g EXCEPT !.console = Append(@, line) ]
Wrote(g, paths) == [ g EXCEPT !.writes = @ \o paths ]
GeneratorExit(g, code, fs) ==
    [ g EXCEPT !.pc = "exited", !.exitCode = code,
               !.finished = Append(@, [ exitCode |-> code, console |-> g.console,
                                        writes |-> g.writes, files |-> fs,
                                        ioErrors |-> g.ioErrors ]) ]
Thrown(g, fs) ==
    GeneratorExit(GeneratorLog(g, "Error generating documentation:"), 1, fs)
Completed(g, fs) ==
    GeneratorExit(GeneratorLog(g, "Documentation generation completed successfully!"), 0, fs)

\* The watcher before it has seen a change: the generator and the detector are
\* taken on their own.
NoWatcherProcess ==
    /\ pendingChanges = {}
    /\ isProcessing = FALSE
    /\ debounceTimeout = 0
    /\ timers = {}
    /\ intervalRemaining = IntervalTicks
    /\ running = {}
    /\ env = [ CHANGED_MODULES |-> {}, TYPES_CHANGED |-> "" ]
    /\ lastFlush = [ trigger |-> "none", outcome |-> "none" ]
    /\ sinceSnapshot = {}

\* node scripts/generate-docs.js has not been run yet.
GeneratorInit ==
    /\ NoWatcherProcess
    /\ NoDetectorInput
    /\ NoPipelineRun
    /\ process = [ env |-> << >>, argv |-> << >> ]
    /\ enhancer = [ pc |-> "none" ]
    /\ requests = << >>
    /\ fileOps = << >>
    /\ now = 0
    /\ files \in GeneratorTrees
    /\ filesAtStart = files
    /\ config \in Configurations
    /\ generator = [ pc |-> "start", console |-> << >>, exitCode |-> 0, writes |-> << >>,
                     ran |-> << >>, errors |-> << >>,
                     run |-> 0, ioErrors |-> 0, finished |-> << >> ]

GeneratorUnchanged ==
    UNCHANGED <<watcherVars, detectorVars, pipelineVars, process, filesAtStart, enhancer, requests,
                fileOps, now, config>>

\* node scripts/generate-docs.js: generateAllDocs starts.
GenerateAllDocs ==
    /\ generator.pc \in {"start", "exited"}
    /\ generator.run < MaxRuns
    /\ generator' = [ generator EXCEPT
                        !.pc = GeneratorSteps[1], !.exitCode = 0, !.writes = << >>,
                        !.ran = << >>, !.errors = << >>,
                        !.run = @ + 1,
                        !.console = << "Starting documentation generation..." >> ]
    /\ UNCHANGED files
    /\ GeneratorUnchanged

\* A step that makes the given calls: all of them succeed and the next step
\* is due, or one of them throws after the ones before it took effect, and
\* generateAllDocs catches it and leaves with process.exit(1).
Makes(calls) ==
    \E n \in 0..Len(calls) :
        /\ n < Len(calls) => generator.ioErrors < MaxIoErrors
        /\ files' = After(files, calls, n)
        /\ generator' =
              IF n = Len(calls)
              THEN [ Wrote(Entered(generator), Written(calls, n)) EXCEPT
                         !.pc = StepAfter(generator.pc) ]
              ELSE Thrown(IoError(Wrote(Entered(generator), Written(calls, n))), files')
        /\ GeneratorUnchanged

CreateDirectoryStructure ==
    /\ generator.pc = "createDirectoryStructure"
    /\ Makes(createDirectoryStructure(files, config))

GenerateArchitectureDocs ==
    /\ generator.pc = "generateArchitectureDocs"
    /\ Makes(generateArchitectureDocs(config))

GenerateModuleDocs ==
    /\ generator.pc = "generateModuleDocs"
    /\ Makes(generateModuleDocs(config))

GenerateComponentDocs ==
    /\ generator.pc = "generateComponentDocs"
    /\ Makes(generateComponentDocs)

GenerateApiReference ==
    /\ generator.pc = "generateApiReference"
    /\ Makes(generateApiReference(config))

\* updateDocsConfig and the end of generateAllDocs.  A docs.json that cannot
\* be read or parsed is skipped with a warning; one without navigation.tabs
\* throws; one without the API Reference tab is left alone with a warning;
\* otherwise the tab's groups are replaced and the file is written.
UpdateDocsConfig ==
    /\ generator.pc = "updateDocsConfig"
    /\ \/ /\ ~existsSync(files, DocsConfigPath)
          /\ generator' =
                Completed(GeneratorLog(NoSuchFile(Entered(generator)),
                    "Could not read docs.json, skipping navigation update"), files)
          /\ UNCHANGED files
       \/ /\ existsSync(files, DocsConfigPath)
          /\ generator.ioErrors < MaxIoErrors
          /\ generator' =
                Completed(GeneratorLog(IoError(Entered(generator)),
                    "Could not read docs.json, skipping navigation update"), files)
          /\ UNCHANGED files
       \/ /\ existsSync(files, DocsConfigPath)
          /\ ~IsJson(files[DocsConfigPath])
          /\ generator' =
                Completed(GeneratorLog(Entered(generator),
                    "Could not read docs.json, skipping navigation update"), files)
          /\ UNCHANGED files
       \/ /\ existsSync(files, DocsConfigPath)
          /\ IsJson(files[DocsConfigPath])
          /\ LET docsConfig == JsonParse(files[DocsConfigPath])
             IN  IF ~docsConfig.navigation
                 THEN /\ generator' = Thrown(Entered(generator), files)
                      /\ UNCHANGED files
                 ELSE IF ~HasApiTab(docsConfig)
                 THEN /\ generator' =
                           Completed(GeneratorLog(Entered(generator),
                               "API Reference tab not found in docs.json"), files)
                      /\ UNCHANGED files
                 ELSE \/ /\ files' = Put(files, DocsConfigPath,
                                         JsonStringify(WithApiGroups(docsConfig, config)))
                         /\ generator' =
                              Completed(GeneratorLog(
                                  Wrote(Entered(generator), << DocsConfigPath >>),
                                  "Updated docs.json navigation with generated API pages"),
                                  files')
                      \/ /\ generator.ioErrors < MaxIoErrors
                         /\ generator' = Thrown(IoError(Entered(generator)), files)
                         /\ UNCHANGED files
    /\ GeneratorUnchanged

GeneratorNext ==
    \/ GenerateAllDocs
    \/ CreateDirectoryStructure
    \/ GenerateArchitectureDocs
    \/ GenerateModuleDocs
    \/ GenerateComponentDocs
    \/ GenerateApiReference
    \/ UpdateDocsConfig

GeneratorSpec == GeneratorInit /\ [][GeneratorNext]_vars

(***************************************************************************)
(* Properties of the generator                                             *)
(***************************************************************************)

\* The runs that have ended, and those among them in which no call of fs failed
\* (the count of failed calls is kept over the runs).
Finished == generator.finished
Undisturbed(k) == Finished[k].exitCode = 0 /\ Finished[k].ioErrors = 0

\* C21: when the generator is run twice in succession with the same
\* configuration and both runs go through with no call of fs failing, the
\* tree after the second run, every page and docs.json, is the tree after the
\* first run.
C21_SecondRunChangesNothing ==
    \A k \in 2..Len(Finished) :
        Undisturbed(k) => Finished[k].files = Finished[k - 1].files

C21_Witness ==
    /\ Len(Finished) = 2
    /\ Undisturbed(2)
    /\ Len(config) = 2
    /\ existsSync(filesAtStart, DocsConfigPath)
    /\ filesAtStart[DocsConfigPath].layout = "as committed"
    /\ Finished[1].files[DocsConfigPath] # filesAtStart[DocsConfigPath]
    /\ DocsConfigPath \in { Finished[2].writes[i] : i \in 1..Len(Finished[2].writes) }

\* The lines of a page, and whether the generator's run has ended well.
Lines(path) == { files[path][i] : i \in 1..Len(files[path]) }
Succeeded == generator.pc = "exited" /\ generator.exitCode = 0

\* C22: in the modules overview and in the API introduction the count of
\* modules that is reported is the number M of configured modules and no
\* other, and the count reported for each module there and in the entity
\* system page is the number e_i of its entities and no other.
C22_CountsComeFromTheConfiguration ==
    \A n \in 0..9 :
        /\ existsSync(files, ModulesOverviewPath) =>
             /\ ModulesHeadline(ToString(n)) \in Lines(ModulesOverviewPath) <=> n = Len(config)
             /\ \A i \in 1..Len(config) :
                    ModuleCard(config[i], ToString(n)) \in Lines(ModulesOverviewPath)
                        <=> n = Len(config[i].entities)
        /\ existsSync(files, ApiIntroductionPath) =>
             /\ ApiHeadline(ToString(n)) \in Lines(ApiIntroductionPath) <=> n = Len(config)
             /\ \A i \in 1..Len(config) :
                    ApiCard(config[i], ToString(n)) \in Lines(ApiIntroductionPath)
                        <=> n = Len(config[i].entities)
        /\ existsSync(files, EntitySystemPath) =>
             \A i \in 1..Len(config) :
                 EntitySystemCard(config[i], ToString(n)) \in Lines(EntitySystemPath)
                     <=> n = Len(config[i].entities)

C22_Witness ==
    /\ Succeeded
    /\ Len(config) = 2
    /\ Len(config[1].entities) = 2
    /\ Len(config[2].entities) = 1
    /\ ModulesHeadline("2") \in Lines(ModulesOverviewPath)
    /\ ApiCard(config[2], "1") \in Lines(ApiIntroductionPath)

\* The pages the manifest of the tree refers to under the tab of that name (none
\* when docs.json is missing or has no navigation), and the files the ended run
\* wrote.
ManifestTabs ==
    IF existsSync(files, DocsConfigPath) /\ IsJson(files[DocsConfigPath])
    THEN JsonParse(files[DocsConfigPath]).tabs
    ELSE << >>
PagesOfGroups(groups) == Flatten([ i \in 1..Len(groups) |-> groups[i].pages ])
PagesOfTab(name) ==
    Flatten([ i \in 1..Len(ManifestTabs) |->
                IF ManifestTabs[i].tab = name THEN PagesOfGroups(ManifestTabs[i].groups)
                ELSE << >> ])
ReferencedPages ==
    Flatten([ i \in 1..Len(ManifestTabs) |-> PagesOfGroups(ManifestTabs[i].groups) ])
Range(s) == { s[i] : i \in 1..Len(s) }
WrittenByRun == Range(generator.writes)

\* C23: after a run of the generator that ended well, every page the manifest
\* refers to is a file of the tree, and every page the run put under the API
\* Reference tab is a file the run has written.
C23_ManifestPagesExist ==
    Succeeded =>
        /\ \A page \in Range(ReferencedPages) : existsSync(files, PageFile(page))
        /\ DocsConfigPath \in WrittenByRun =>
             \A page \in Range(PagesOfTab("API Reference")) : PageFile(page) \in WrittenByRun

\* The API pages of the configured module/entity pairs, module by module, and
\* the groups of the manifest that list any of them.
EntityPages(module) ==
    [ j \in 1..Len(module.entities) |-> <<"api-reference", module.name, module.entities[j]>> ]
ConfiguredPages == Flatten([ i \in 1..Len(config) |-> EntityPages(config[i]) ])
ManifestGroups == Flatten([ i \in 1..Len(ManifestTabs) |-> ManifestTabs[i].groups ])
Occurrences(page) == Cardinality({ k \in 1..Len(ReferencedPages) : ReferencedPages[k] = page })
GroupsOfEntityPages ==
    SelectSeq(ManifestGroups, LAMBDA g : Range(g.pages) \cap Range(ConfiguredPages) # {})
ModulesWithEntities == SelectSeq(config, LAMBDA module : module.entities # << >>)

\* C24: after a run of the generator that ended well, the manifest refers
\* exactly once to the API page of every configured module/entity pair, one
\* group for each module in the order of the configuration, the pages of a
\* group in the order the module declares its entities.
C24_EveryEntityPageOnceInOrder ==
    Succeeded =>
        /\ \A page \in Range(ConfiguredPages) : Occurrences(page) = 1
        /\ Len(GroupsOfEntityPages) = Len(ModulesWithEntities)
        /\ \A i \in 1..Len(GroupsOfEntityPages) :
               GroupsOfEntityPages[i].pages = EntityPages(ModulesWithEntities[i])

\* The module pages and the entity pages among the files a run wrote, in the
\* order it wrote them, and the ones the configuration calls for.
IsModulePage(path) == Len(path) = 2 /\ path[1] = "modules" /\ path # ModulesOverviewPath
IsEntityPage(path) == Len(path) = 3 /\ path[1] = "api-reference"
ModulePagesWritten == SelectSeq(generator.writes, IsModulePage)
EntityPagesWritten == SelectSeq(generator.writes, IsEntityPage)
ModulePagesDue == [ i \in 1..Len(config) |-> ModuleDocPath(config[i].name) ]
EntityPagesDue ==
    Flatten([ i \in 1..Len(config) |->
                [ j \in 1..Len(config[i].entities) |->
                    EntityApiPath(config[i].name, config[i].entities[j]) ] ])
IsPrefix(s, t) == Len(s) <= Len(t) /\ s = SubSeq(t, 1, Len(s))

\* C25: the module pages a run writes are, in this order and once each, the
\* pages modules/<name>.mdx of the configured modules, and the API pages it
\* writes are, in this order and once each, the pages
\* api-reference/<module>/<entity>.mdx of their entities: while the run goes
\* on it has written a beginning of these lists, and when it has ended well it
\* has written all of them.
C25_OnePagePerModuleAndEntity ==
    generator.pc # "none" =>
        /\ IsPrefix(ModulePagesWritten, ModulePagesDue)
        /\ IsPrefix(EntityPagesWritten, EntityPagesDue)
        /\ Succeeded => /\ ModulePagesWritten = ModulePagesDue
                        /\ EntityPagesWritten = EntityPagesDue

C25_Witness ==
    /\ Succeeded
    /\ Len(config) = 2
    /\ Len(ModulePagesWritten) = 2
    /\ Len(EntityPagesWritten) = 3
    /\ config[1].name = "sales"
    /\ config[1].entities = << "order", "cart" >>

\* C26: when a call of fs throws in a step of a run, that step is the last one
\* the run enters and the process leaves with status 1; and a run prints the
\* message of success only after it has entered all six steps and no call of
\* fs has thrown in any of them.
C26_IoErrorEndsTheRun ==
    generator.pc # "none" =>
        /\ generator.errors # << >> =>
             /\ generator.pc = "exited"
             /\ generator.exitCode = 1
             /\ generator.ran[Len(generator.ran)] = generator.errors[1]
        /\ "Documentation generation completed successfully!" \in Range(generator.console) =>
             /\ generator.ran = GeneratorSteps
             /\ generator.errors = << >>

(***************************************************************************)
(* Properties of the publisher (commitChanges of the watcher)              *)
(***************************************************************************)

GitWrites == { GitAdd, GitCommit, GitPush }
Count(b, msg) == Cardinality({ i \in 1..Len(b.console) : b.console[i].msg = msg })

\* C27: when git status reports a clean tree, commitChanges runs no git add,
\* git commit or git push and prints neither an error nor a commit message:
\* the next command of the batch, if there is one, is not a git command that
\* writes; and git add is run only right after a git status that reported
\* changes, git commit only right after that git add.
C27_CleanTreeIsLeftAlone ==
    /\ \A b \in running :
           b.awaiting = GitStatus =>
               \A n \in Resume(b, "clean", env) :
                   /\ n[1].awaiting \notin GitWrites
                   /\ Count(n[1], "Commit failed") = Count(b, "Commit failed")
                   /\ Count(n[1], "Changes committed successfully")
                        = Count(b, "Changes committed successfully")
    /\ \A b \in Observed : \A i \in 1..Len(b.execs) :
           /\ b.execs[i].cmd = GitStatus /\ b.execs[i].result = "clean" /\ i < Len(b.execs)
                => b.execs[i + 1].cmd \notin GitWrites
           /\ b.execs[i].cmd = GitAdd
                => /\ i > 1
                   /\ b.execs[i - 1].cmd = GitStatus
                   /\ b.execs[i - 1].result = "dirty"
           /\ b.execs[i].cmd = GitCommit
                => /\ i > 1
                   /\ b.execs[i - 1].cmd = GitAdd

C27_Witness ==
    \E b \in Observed :
        /\ b.awaiting = Returned
        /\ b.execs[Len(b.execs)] = [cmd |-> GitStatus, fn |-> "aiEnhancedUpdate", result |-> "clean"]
        /\ Executed(b, GitStatus, "dirty")
        /\ Count(b, "Changes committed successfully") = 1
        /\ ~Printed(b, "Commit failed")

\* The values of AUTO_PUSH the batch read when it had run n commands.
AutoPushReadAfter(b, n) ==
    { b.autoPush[k].value : k \in { j \in 1..Len(b.autoPush) : b.autoPush[j].after = n } }

\* C28: a git commit comes right after a successful git add . and a
\* successful git add . is followed by the git commit; a git push comes only
\* right after a successful git commit at which AUTO_PUSH was read as 'true',
\* and after a commit at which it was read as anything else the next command is
\* not a git push.
C28_StageCommitThenPushIfEnabled ==
    \A b \in Observed : \A i \in 1..Len(b.execs) :
        /\ b.execs[i].cmd = GitCommit
             => /\ i > 1
                /\ b.execs[i - 1].cmd = GitAdd
                /\ b.execs[i - 1].result = "ok"
        /\ b.execs[i].cmd = GitAdd /\ b.execs[i].result = "ok"
             => IF i < Len(b.execs) THEN b.execs[i + 1].cmd = GitCommit
                ELSE b.awaiting = GitCommit
        /\ b.execs[i].cmd = GitPush
             => /\ i > 1
                /\ b.execs[i - 1].cmd = GitCommit
                /\ b.execs[i - 1].result = "ok"
                /\ AutoPushReadAfter(b, i - 1) = { "true" }
        /\ b.execs[i].cmd = GitCommit /\ b.execs[i].result = "ok"
             => /\ AutoPushReadAfter(b, i) # {}
                /\ AutoPushReadAfter(b, i) # { "true" }
                     => /\ i < Len(b.execs) => b.execs[i + 1].cmd # GitPush
                        /\ i = Len(b.execs) => b.awaiting # GitPush
                /\ AutoPushReadAfter(b, i) = { "true" }
                     => IF i < Len(b.execs) THEN b.execs[i + 1].cmd = GitPush
                        ELSE b.awaiting = GitPush

C28_Witness ==
    \E b \in Observed :
        /\ b.awaiting = Returned
        /\ Len(b.execs) >= 4
        /\ LET n == Len(b.execs) IN
               /\ b.execs[n] = [cmd |-> GitPush, fn |-> "quickUpdate", result |-> "ok"]
               /\ b.execs[n - 1].cmd = GitCommit
               /\ b.execs[n - 2].cmd = GitAdd
               /\ b.execs[n - 3] = [cmd |-> GitStatus, fn |-> "quickUpdate", result |-> "dirty"]
               /\ AutoPushReadAfter(b, n - 1) = { "true" }
        /\ Printed(b, "Changes committed successfully")

(***************************************************************************)
(* The change detector (analyzeChanges) as a function of the paths that    *)
(* arrived: the pending Set keeps each path once, in the order of its      *)
(* first arrival, and analyzeChanges goes through them in that order.      *)
(***************************************************************************)

MaxArrived == 3

\* The paths that can arrive: the ones of the watcher, a source file of a
\* module entity and the types file under another root, a file that lies in
\* the modules directory itself, a file under a first directory named
\* modules, and a file that is none of these.
DetectorPaths ==
    Range(PathUniverse)
    \cup { <<"root", "modules", "sales", "entities", "order.x">>,
           <<"root", "generated.d.ts">>,
           Root \o <<"modules", "index.tsx">>,
           <<"modules", "hr", "pages", "Staff.tsx">>,
           Root \o <<"lib", "utils.ts">> }

\* new Set() after add of each path in turn; Array.from gives its elements in
\* the order of insertion.
RECURSIVE SetOf(_)
SetOf(values) ==
    IF values = << >> THEN << >>
    ELSE LET before == SetOf(SubSeq(values, 1, Len(values) - 1))
             last == values[Len(values)]
         IN  IF last \in Range(before) THEN before ELSE Append(before, last)

\* analysis after the first n turns of `for (const filePath of filePaths)`
RECURSIVE analysisAfter_typesOfLastPath(_, _)
analysisAfter_typesOfLastPath(filePaths, n) ==
    IF n = 0
    THEN [ modules |-> << >>, types |-> FALSE, components |-> FALSE, services |-> FALSE ]
    ELSE LET analysis == analysisAfter_typesOfLastPath(filePaths, n - 1)
             filePath == filePaths[n]
         IN  [ modules    |-> IF HasSegment(filePath, "modules")
                              THEN SetOf(Append(analysis.modules, ModuleName(filePath)))
                              ELSE analysis.modules,
               types      |-> IsTypesFile(filePath),
               components |-> analysis.components \/ HasSegment(filePath, "components"),
               services   |-> analysis.services \/ HasSegment(filePath, "services") ]

RECURSIVE analysisAfter(_, _)
analysisAfter(filePaths, n) ==
    IF n = 0
    THEN [ modules |-> << >>, types |-> FALSE, components |-> FALSE, services |-> FALSE ]
    ELSE LET analysis == analysisAfter(filePaths, n - 1)
             filePath == filePaths[n]
         IN  [ modules    |-> IF HasSegment(filePath, "modules")
                              THEN SetOf(Append(analysis.modules, ModuleName(filePath)))
                              ELSE analysis.modules,
               types      |-> analysis.types \/ IsTypesFile(filePath),
               components |-> analysis.components \/ HasSegment(filePath, "components"),
               services   |-> analysis.services \/ HasSegment(filePath, "services") ]

\* analyzeChanges of an array of paths
analyzeChangesOfArray(filePaths) == analysisAfter(filePaths, Len(filePaths))

\* The arrays of at most MaxArrived paths.
RECURSIVE Arrays(_, _)
Arrays(S, n) ==
    IF n = 0 THEN { << >> }
    ELSE Arrays(S, n - 1) \cup { Append(a, x) : a \in { b \in Arrays(S, n - 1) : Len(b) = n - 1 }, x \in S }

\* A string of the environment is the sequence of its parts (module names,
\* line feeds, the word true); '' is << >>.
LineFeed == "\n"

\* Array.prototype.join('\n')
RECURSIVE join(_)
join(array) ==
    IF array = << >> THEN << >>
    ELSE IF Len(array) = 1 THEN << array[1] >>
    ELSE join(SubSeq(array, 1, Len(array) - 1)) \o << LineFeed, array[Len(array)] >>

\* String.prototype.split('\n'): the strings between the line feeds
RECURSIVE split(_)
split(string) ==
    IF \A i \in 1..Len(string) : string[i] # LineFeed THEN << string >>
    ELSE LET i == CHOOSE k \in 1..Len(string) :
                      string[k] = LineFeed /\ \A j \in 1..(k - 1) : string[j] # LineFeed
         IN  << SubSeq(string, 1, i - 1) >> \o split(SubSeq(string, i + 1, Len(string)))

\* Boolean(value) of a string
Boolean(string) == string # << >>

\* process.env as the enhancer's process inherits it: a name that was never
\* assigned is not in its domain.
Assign(e, name, value) == (name :> value) @@ e

WrittenEnv_unlessEmpty(e, analysis) ==
    LET e1 == IF analysis.modules = << >> THEN e
              ELSE Assign(e, "CHANGED_MODULES", join(analysis.modules))
    IN  IF analysis.types THEN Assign(e1, "TYPES_CHANGED", << "true" >>) ELSE e1

\* process.env.CHANGED_MODULES = analysis.modules.join('\n');
\* process.env.TYPES_CHANGED = analysis.types ? 'true' : '';
WrittenEnv(e, analysis) ==
    Assign(Assign(e, "CHANGED_MODULES", join(analysis.modules)),
           "TYPES_CHANGED", IF analysis.types THEN << "true" >> ELSE << >>)

\* this.changedModules = process.env.CHANGED_MODULES?.split('\n').filter(Boolean) || [];
\* this.typesChanged = Boolean(process.env.TYPES_CHANGED);
ReadEnv(e) ==
    [ changedModules |-> IF "CHANGED_MODULES" \in DOMAIN e
                         THEN SelectSeq(split(e["CHANGED_MODULES"]), Boolean)
                         ELSE << >>,
      typesChanged   |-> "TYPES_CHANGED" \in DOMAIN e /\ Boolean(e["TYPES_CHANGED"]) ]

\* process.env of the watcher before the batch: never assigned, or as an
\* earlier batch that ran the enhancer left it.
EarlierEnvs ==
    { << >>,
      WrittenEnv(<< >>, [ modules |-> <<"sales", "hr", "stock">>, types |-> TRUE ]) }

DetectorInit ==
    /\ NoWatcherProcess
    /\ NoEnhancerProcess
    /\ NoGeneratorProcess
    /\ NoPipelineRun
    /\ arrived \in Arrays(DetectorPaths, MaxArrived)
    /\ \E e \in EarlierEnvs : changeSet = [ analysed |-> FALSE, earlier |-> e, env |-> e ]

changesOf_everyEvent(events) == events

\* this.pendingChanges.add(filePath) for the path of each event in turn, then
\* const changes = Array.from(this.pendingChanges)
changesOf(events) == SetOf(events)

\* const changes = Array.from(this.pendingChanges);
\* const changeAnalysis = this.analyzeChanges(changes);
Analyze ==
    /\ ~changeSet.analysed
    /\ changeSet' = [ analysed |-> TRUE, changes |-> changesOf(arrived),
                      earlier |-> changeSet.earlier, env |-> changeSet.env,
                      enhanced |-> FALSE ]
                        @@ analyzeChangesOfArray(SetOf(arrived))
    /\ UNCHANGED <<arrived, watcherVars, enhancerVars, generatorVars, pipelineVars>>

\* The batch meets the threshold and aiEnhancedUpdate, having found an API
\* key, sets the two variables and runs the enhancer, whose constructor reads
\* them from the environment it inherits.
Enhance ==
    /\ changeSet.analysed
    /\ ~changeSet.enhanced
    /\ Len(changeSet.changes) >= aiUpdateThreshold
    /\ changeSet' = [ changeSet EXCEPT !.enhanced = TRUE,
                                       !.env = WrittenEnv(changeSet.env, changeSet) ]
    /\ UNCHANGED <<arrived, watcherVars, enhancerVars, generatorVars, pipelineVars>>

DetectorNext == Analyze \/ Enhance

DetectorSpec == DetectorInit /\ [][DetectorNext]_vars

(***************************************************************************)
(* Properties of the change detector                                       *)
(***************************************************************************)

\* A change set, in which the order of the modules does not count.
ChangeSetOf(analysis) ==
    [ modules |-> Range(analysis.modules), types |-> analysis.types,
      components |-> analysis.components, services |-> analysis.services ]

\* The path has the segments /modules/<name>/: a directory <name> in a
\* directory modules that is not the first segment.
UnderModule(p, name) ==
    \E i \in 2..(Len(p) - 2) : p[i] = "modules" /\ p[i + 1] = name
ModulesUnder(paths) ==
    UNION { { p[i + 1] : i \in { k \in 2..(Len(p) - 2) : p[k] = "modules" } } : p \in paths }

\* C29: the analysis is a function of the paths alone: its modules are the
\* names <name> for which some path has the segments /modules/<name>/, each
\* once; types is true exactly when some path is the generated types file,
\* components and services exactly when some path lies under a directory of
\* that name; a path that is none of these adds nothing.
C29_AnalysisOfPaths ==
    changeSet.analysed =>
        /\ Range(changeSet.modules) = ModulesUnder(Range(arrived))
        /\ Cardinality(Range(changeSet.modules)) = Len(changeSet.modules)
        /\ changeSet.types <=> \E p \in Range(arrived) : IsTypesFile(p)
        /\ changeSet.components <=> \E p \in Range(arrived) : HasSegment(p, "components")
        /\ changeSet.services <=> \E p \in Range(arrived) : HasSegment(p, "services")
        /\ arrived = << <<"root", "modules", "sales", "entities", "order.x">>,
                        <<"root", "generated.d.ts">> >>
             => ChangeSetOf(changeSet) =
                  [ modules |-> {"sales"}, types |-> TRUE,
                    components |-> FALSE, services |-> FALSE ]

\* The merge of two change sets: the union of their modules, the OR of each
\* flag.
Merge(a, b) ==
    [ modules |-> a.modules \cup b.modules, types |-> a.types \/ b.types,
      components |-> a.components \/ b.components, services |-> a.services \/ b.services ]
Analysis(paths) == ChangeSetOf(analyzeChangesOfArray(SetOf(paths)))

\* C30: the change set of a batch is the same in whatever order its paths
\* arrived, and for every way of cutting the arrivals into a first part A and
\* a rest B it is the merge of the change sets of A and B, taken in either
\* order.
C30_MergeIsOrderIndependent ==
    changeSet.analysed =>
        /\ \A other \in Arrangements(Range(arrived)) :
               Analysis(other) = ChangeSetOf(changeSet)
        /\ \A n \in 0..Len(arrived) :
               LET A == SubSeq(arrived, 1, n)
                   B == SubSeq(arrived, n + 1, Len(arrived))
               IN  /\ Merge(Analysis(A), Analysis(B)) = ChangeSetOf(changeSet)
                   /\ Merge(Analysis(B), Analysis(A)) = ChangeSetOf(changeSet)
                   /\ Analysis(B \o A) = ChangeSetOf(changeSet)

C30_Witness ==
    /\ changeSet.analysed
    /\ Cardinality(Range(arrived)) = 3
    /\ Len(changeSet.modules) = 2
    /\ changeSet.types
    /\ ~IsTypesFile(arrived[3])
    /\ \E other \in Arrangements(Range(arrived)) :
           analyzeChangesOfArray(other).modules # changeSet.modules

(***************************************************************************)
(* Properties of the watcher's batches, continued                          *)
(***************************************************************************)

\* C31: when the types file is absent, npm run sync:types does not fail the
\* quick update: the batch that awaits it goes on to the generator without
\* printing a failure, and a batch whose sync ended well has run or awaits
\* the generator next, and after a generator that ended well the status
\* check of the commit.
C31_AbsentTypesFileIsSkipped ==
    /\ \A b \in running :
           b.awaiting = SyncTypes =>
               \A n \in Resume(b, SyncTypesResult("absent"), env) :
                   /\ n[1].awaiting = GenerateDocs
                   /\ ~Printed(n[1], "Quick update failed")
    /\ \A b \in Observed :
           Executed(b, SyncTypes, "ok") =>
               /\ IF Len(b.execs) = 1 THEN b.awaiting = GenerateDocs
                  ELSE b.execs[2].cmd = GenerateDocs
               /\ Executed(b, GenerateDocs, "ok") =>
                    IF Len(b.execs) = 2 THEN b.awaiting = GitStatus
                    ELSE b.execs[3].cmd = GitStatus

C31_Witness ==
    \E b \in running :
        /\ b.analysis.types
        /\ Len(b.execs) = 2
        /\ b.execs[1] = [cmd |-> SyncTypes, fn |-> "quickUpdate", result |-> SyncTypesResult("absent")]
        /\ b.execs[2] = [cmd |-> GenerateDocs, fn |-> "quickUpdate", result |-> "ok"]
        /\ b.awaiting = GitStatus

NoKeys == [ ANTHROPIC_API_KEY |-> FALSE, OPENAI_API_KEY |-> FALSE ]
SkippedEnhancement(b) == Printed(b, "No AI API keys found, skipping AI enhancement")
RanBy(b, fn) == { i \in 1..Len(b.execs) : b.execs[i].fn = fn }

\* C32: a batch of at least aiUpdateThreshold paths that finds no API key has
\* by then run the generator (unless npm run sync:types failed before it) and,
\* if the generator ended well, the status check of the quick commit; its
\* enhancement step prints that it is skipped, runs no
\* command and returns, and the batch ends with the line of success and with
\* no failure printed by the step or by processAccumulatedChanges.
C32_NoCredentialNoEnhancement ==
    /\ \A b \in running :
           (b.fn = "quickUpdate" /\ MeetsThreshold(b.changes)) =>
               \A n \in aiEnhancedUpdateWith(b, env, NoKeys) :
                   /\ SkippedEnhancement(n[1])
                   /\ n[1].awaiting = Returned
                   /\ n[1].execs = b.execs
    /\ \A b \in Observed :
           SkippedEnhancement(b) =>
               /\ MeetsThreshold(b.changes)
               /\ ~Executed(b, SyncTypes, "fail")
                    => \E i \in RanBy(b, "quickUpdate") : b.execs[i].cmd = GenerateDocs
               /\ Executed(b, GenerateDocs, "ok")
                    => \E i \in RanBy(b, "quickUpdate") : b.execs[i].cmd = GitStatus
               /\ RanBy(b, "aiEnhancedUpdate") = {}
               /\ b.awaiting = Returned
               /\ b.console[Len(b.console)].msg = "Documentation updated successfully"
               /\ ~Printed(b, "AI enhancement failed")
               /\ ~Printed(b, "Error processing changes")

C32_Witness ==
    \E b \in Observed :
        /\ SkippedEnhancement(b)
        /\ Cardinality(b.changes) = aiUpdateThreshold
        /\ Executed(b, GenerateDocs, "ok")
        /\ Executed(b, GitCommit, "ok")
        /\ b.awaiting = Returned

(***************************************************************************)
(* Properties of the enhancer's exit status.                               *)
(***************************************************************************)

\* The errors that end a run before any page is enhanced: the constructor's
\* missing key and the failed probe of testConnection.
FatalErrors == { KeyRequired, UnableToConnect }
Aborted == enhancer.pc = "exited" /\ enhancer.error \in FatalErrors

\* C33: a run of the enhancer that aborts on a fatal error (missing or invalid
\* credential, failed connectivity probe) ends with a non-success exit status.
C33_FatalErrorExitsNonZero ==
    Aborted => enhancer.exitCode # 0

(***************************************************************************)
(* Properties of the threshold, as a function of the events that arrived   *)
(***************************************************************************)

\* if (changes.length >= this.aiUpdateThreshold) of the batch that was analysed
EnhancementDue == Len(changeSet.changes) >= aiUpdateThreshold

DistinctPaths(events) == Cardinality(Range(events))

\* C34: the threshold is compared with the number of distinct paths of the
\* batch: the batch holds each path once however many events arrived on it,
\* the enhancement is due exactly when at least aiUpdateThreshold distinct
\* paths arrived, and events on fewer than aiUpdateThreshold distinct paths
\* never make it due.
C34_ThresholdCountsDistinctPaths ==
    changeSet.analysed =>
        /\ Len(changeSet.changes) = DistinctPaths(arrived)
        /\ Range(changeSet.changes) = Range(arrived)
        /\ EnhancementDue <=> DistinctPaths(arrived) >= aiUpdateThreshold
        /\ DistinctPaths(arrived) < aiUpdateThreshold => ~EnhancementDue

\* C34 witness: aiUpdateThreshold events arrived on fewer distinct paths, one
\* path twice, and the batch is below the threshold.
C34_Witness ==
    /\ changeSet.analysed
    /\ Len(arrived) >= aiUpdateThreshold
    /\ DistinctPaths(arrived) = aiUpdateThreshold - 1
    /\ ~EnhancementDue

(***************************************************************************)
(* Properties of the watcher's flushes, continued                          *)
(***************************************************************************)

\* C35: a flush (debounce firing or interval tick) that finds the pending
\* set empty does nothing: no batch starts, so no regeneration, enhancement
\* or commit starts, the batches in flight are untouched, and isProcessing,
\* the pending set and the environment stay as they are; no batch ever has an
\* empty change set.
C35_EmptyFlushDoesNothing ==
    /\ [](\A b \in Observed : b.changes # {})
    /\ [][ (Flush /\ pendingChanges = {})
             => /\ UNCHANGED <<running, isProcessing, pendingChanges, env, sinceSnapshot>>
                /\ lastFlush'.outcome = "returned early" ]_vars

\* C35 witness: the interval callback has just met an empty pending set while
\* nothing was in flight, and has returned.
C35_Witness ==
    /\ lastFlush = [ trigger |-> "interval", outcome |-> "returned early" ]
    /\ intervalRemaining = IntervalTicks
    /\ pendingChanges = {}
    /\ sinceSnapshot = {}
    /\ running = {}
    /\ ~isProcessing

\* This step ends a batch: it leaves the set of batches in flight.
BatchEnds == \E b \in running : running' = running \ {b}

\* C37: whenever a batch ends, after a failed type sync, generation,
\* enhancement or commit as after a success, isProcessing is false and the
\* pending set is as it was; a batch in flight always ends, so isProcessing
\* returns to false; and a flush made while isProcessing is false and a path
\* is pending starts a batch of the pending paths.
C37_IsProcessingReturnsToFalse ==
    /\ [][ BatchEnds => (~isProcessing' /\ UNCHANGED pendingChanges) ]_vars
    /\ [][ (Flush /\ ~isProcessing /\ pendingChanges # {}) => StartsBatchOfPending ]_vars
    /\ isProcessing ~> (~isProcessing /\ running = {})

\* C37 witness: a batch has started and has ended, and paths that arrived
\* meanwhile are pending for the next flush.
C37_Witness ==
    /\ ~isProcessing
    /\ running = {}
    /\ lastFlush.outcome = "started"
    /\ pendingChanges # {}
    /\ sinceSnapshot = pendingChanges
    /\ timers # {}

(***************************************************************************)
(* Properties of the hand-over from the watcher to the enhancer            *)
(***************************************************************************)

\* The enhancer's fields for the environment the batch left.
Handed == ReadEnv(changeSet.env)

\* An array of names as an array of strings.
Strings(names) == [ i \in 1..Len(names) |-> << names[i] >> ]

\* C40: for every batch that runs the enhancer, the enhancer's changedModules
\* are the batch's analysis.modules, the same names in the same order, and
\* its typesChanged is analysis.types, whatever an earlier batch of the same
\* watcher process left in CHANGED_MODULES and TYPES_CHANGED.
C40_ChangeSetRoundTrips ==
    (changeSet.analysed /\ changeSet.enhanced) =>
        /\ Handed.changedModules = Strings(changeSet.modules)
        /\ Handed.typesChanged = changeSet.types

\* C40 witness: a batch without a module and without a type change has run
\* the enhancer after a batch that had three modules and a type change.
C40_Witness ==
    /\ changeSet.analysed
    /\ changeSet.enhanced
    /\ changeSet.modules = << >>
    /\ ~changeSet.types
    /\ Handed = [ changedModules |-> << >>, typesChanged |-> FALSE ]
    /\ Len(ReadEnv(changeSet.earlier).changedModules) = 3
    /\ ReadEnv(changeSet.earlier).typesChanged

(***************************************************************************)
(* The CI workflow (.github/workflows: "Update Documentation with AI"),    *)
(* job update-docs.  One run of the job is one behaviour: the commit that  *)
(* was pushed, the commits the checkout fetched and the types file of the  *)
(* application are its inputs.  A run step is a bash -e script: a command  *)
(* that fails ends the step and the job.  The value of a shell variable is *)
(* the sequence of its lines; '' is << >>.                                 *)
(***************************************************************************)

\* The files a pushed commit can have changed, relative to agves_app.
CommitPaths ==
    { <<"src", "modules", "sales", "pages", "OrderList.tsx">>,
      <<"src", "modules", "hr", "entities", "Staff.ts">>,
      <<"src", "generated.d.ts">>,
      <<"src", "lib", "utils.ts">>,
      <<"src", "components", "Button.tsx">> }

\* The order of sort on the names that cut can give.
SortOrder == << "hr", "sales" >>

\* actions/checkout@v4 with no fetch-depth: the commit that was pushed is
\* fetched alone, and HEAD~1 names nothing; a checkout that has the parent
\* commit too is kept as the other case.
Histories == { "HEAD only", "HEAD and HEAD~1" }

\* git diff --name-only HEAD~1 HEAD: the changed files, or nothing on the
\* standard output when HEAD~1 is not a commit of the clone.
gitDiffNameOnly(run) == IF run.history = "HEAD only" THEN {} ELSE run.commit

\* grep '^src/modules/' | cut -d'/' -f3 | sort -u
ModuleLines(paths) ==
    LET names == { p[3] : p \in { q \in paths : Len(q) >= 3 /\ q[1] = "src" /\ q[2] = "modules" } }
    IN  SelectSeq(SortOrder, LAMBDA name : name \in names)

\* grep 'src/generated.d.ts': the lines that hold these two segments
TypesLines(paths) ==
    LET hits == { p \in paths : \E i \in 1..(Len(p) - 1) :
                                    p[i] = "src" /\ p[i + 1] = "generated.d.ts" }
    IN  IF hits = {} THEN << >> ELSE << "src/generated.d.ts" >>

\* [ ! -z "$CHANGED_MODULES" ] || [ ! -z "$TYPES_CHANGED" ]
ChangesDetected(e) == e.CHANGED_MODULES # << >> \/ e.TYPES_CHANGED # << >>

Step_(run, name) == [ run EXCEPT !.pc = name ]
Runs(run, cmd, result) == [ run EXCEPT !.ran = Append(@, [ cmd |-> cmd, result |-> result ]) ]
Fails(run) == [ run EXCEPT !.pc = "failed" ]

CopyTypes == "cp ../agves_app/src/generated.d.ts ./types/"

WorkflowInit ==
    /\ NoWatcherProcess
    /\ NoEnhancerProcess
    /\ NoGeneratorProcess
    /\ NoDetectorInput
    /\ docs = [ phase |-> "none" ]
    /\ \E commit \in SUBSET CommitPaths, history \in Histories, source \in TypesFile :
          workflow = [ pc |-> "Analyze code changes", commit |-> commit,
                       history |-> history, typesFile |-> source,
                       outputs |-> << >>, ran |-> << >> ]

WorkflowUnchanged ==
    UNCHANGED <<watcherVars, enhancerVars, generatorVars, detectorVars, docs>>

\* Step "Analyze code changes": the two outputs of the step.
AnalyzeCodeChanges ==
    /\ workflow.pc = "Analyze code changes"
    /\ workflow' =
          [ Step_(workflow, "Generate AI-enhanced documentation") EXCEPT
              !.outputs = [ changed_modules |-> ModuleLines(gitDiffNameOnly(workflow)),
                            types_changed   |-> TypesLines(gitDiffNameOnly(workflow)) ] ]
    /\ WorkflowUnchanged

\* The environment of the step "Generate AI-enhanced documentation".
StepEnv(run) ==
    [ CHANGED_MODULES |-> run.outputs.changed_modules,
      TYPES_CHANGED   |-> run.outputs.types_changed ]

\* Step "Generate AI-enhanced documentation": the copy of the types file or
\* its fallback, the generator, then the enhancer if a change was detected.
GenerateDocumentation ==
    /\ workflow.pc = "Generate AI-enhanced documentation"
    /\ \E generated \in Results(GenerateDocs), enhanced \in Results(EnhanceDocs) :
          LET synced == Runs(workflow, CopyTypes,
                             IF OrElse(cp(workflow.typesFile), echo) = 0 THEN "ok" ELSE "fail")
              run1 == Runs(synced, GenerateDocs, generated)
              run2 == Runs(run1, EnhanceDocs, enhanced)
          IN  workflow' =
                 IF OrElse(cp(workflow.typesFile), echo) # 0 THEN Fails(synced)
                 ELSE IF generated # "ok" THEN Fails(run1)
                 ELSE IF ~ChangesDetected(StepEnv(workflow))
                      THEN Step_(run1, "Commit and push changes")
                 ELSE IF enhanced # "ok" THEN Fails(run2)
                 ELSE Step_(run2, "Commit and push changes")
    /\ WorkflowUnchanged

\* Step "Commit and push changes": add, commit and push if the tree is dirty.
CommitAndPush ==
    /\ workflow.pc = "Commit and push changes"
    /\ \E status \in Results(GitStatus), added \in Results(GitAdd),
          committed \in Results(GitCommit), pushed \in Results(GitPush) :
          LET run1 == Runs(workflow, GitStatus, status)
              run2 == Runs(run1, GitAdd, added)
              run3 == Runs(run2, GitCommit, committed)
              run4 == Runs(run3, GitPush, pushed)
          IN  workflow' =
                 IF status = "fail" THEN Fails(run1)
                 ELSE IF status = "clean" THEN Step_(run1, "Deploy to Mintlify")
                 ELSE IF added # "ok" THEN Fails(run2)
                 ELSE IF committed # "ok" THEN Fails(run3)
                 ELSE IF pushed # "ok" THEN Fails(run4)
                 ELSE Step_(run4, "Deploy to Mintlify")
    /\ WorkflowUnchanged

\* Step "Deploy to Mintlify": cd docs, and the job is over.
Deploy ==
    /\ workflow.pc = "Deploy to Mintlify"
    /\ workflow' = Step_(workflow, "completed")
    /\ WorkflowUnchanged

WorkflowNext == AnalyzeCodeChanges \/ GenerateDocumentation \/ CommitAndPush \/ Deploy

WorkflowSpec == WorkflowInit /\ [][WorkflowNext]_vars

(***************************************************************************)
(* Properties of the CI workflow                                           *)
(***************************************************************************)

RanInJob(cmd) == \E i \in 1..Len(workflow.ran) : workflow.ran[i].cmd = cmd
SucceededInJob(cmd) ==
    \E i \in 1..Len(workflow.ran) : workflow.ran[i].cmd = cmd /\ workflow.ran[i].result = "ok"

\* The change-set of the pushed commit: its changed modules, and whether the
\* types file changed.
CommitModules == { p[3] : p \in { q \in workflow.commit : Len(q) >= 3 /\ q[1] = "src" /\ q[2] = "modules" } }
CommitTypes == <<"src", "generated.d.ts">> \in workflow.commit

\* C36: once the documentation step of a job is over, the generator has been
\* run; and if the generator succeeded, the enhancer has been run after it
\* exactly when the pushed commit changed a module or the types file.
C36_EnhancerRunsIffChangeSet ==
    workflow.pc \in { "Commit and push changes", "Deploy to Mintlify", "completed", "failed" } =>
        /\ RanInJob(GenerateDocs)
        /\ SucceededInJob(GenerateDocs) =>
             (RanInJob(EnhanceDocs) <=> (CommitModules # {} \/ CommitTypes))
        /\ \A i, j \in 1..Len(workflow.ran) :
             (workflow.ran[i].cmd = GenerateDocs /\ workflow.ran[j].cmd = EnhanceDocs) => i < j

(***************************************************************************)
(* The watcher's batches as they act on the files of the documentation:    *)
(* each batch runs the generator (quickUpdate) and then, if it meets the   *)
(* threshold, the enhancer (aiEnhancedUpdate), one batch after the other   *)
(* on the same tree.  A run of the generator or of the enhancer is one     *)
(* step here; GeneratorSpec and EnhancerSpec take the runs apart.          *)
(***************************************************************************)

MaxBatches == 2

\* config.modules of the generator: with and without the module sales.
BatchConfigurations ==
    { << Descriptor("authorization", <<"permission">>), Descriptor("sales", <<"cart", "order">>) >>,
      << Descriptor("authorization", <<"permission">>) >> }

\* The trees the first batch can meet: nothing generated yet; the page of
\* module hr, which is not in the generator's configuration, written by hand
\* or not.
BatchTrees == { << >>, ModuleDocPath("hr") :> PageBefore(ModuleDocPath("hr")) }

\* The calls of fs of one run of the generator, in order (docs.json is not in
\* these trees, so updateDocsConfig changes nothing).
GeneratorCalls(fs, modules) ==
    createDirectoryStructure(fs, modules)
    \o generateArchitectureDocs(modules)
    \o generateModuleDocs(modules)
    \o generateComponentDocs
    \o generateApiReference(modules)

\* The enhancer process at its start, on the tree fs with CHANGED_MODULES names.
ChildProcess(fs, names) ==
    [ files |-> fs, fileOps |-> << >>, requests |-> << >>, now |-> 0,
      enhancer |-> [ pc |-> "start", step |-> Step("main", 0), prompt |-> ProbePrompt,
                     this |-> [ changedModules |-> names, typesChanged |-> FALSE ],
                     console |-> << >>, exitCode |-> 0, error |-> "" ] ]

\* What callClaude can return for a prompt.
Answers(prompt) == { Null } \cup { String(text) : text \in Replies(prompt) }

\* for (const module of this.changedModules) from its i-th round on: the
\* processes the loop can end in, one for each choice of answers.
RECURSIVE ModuleRounds(_, _)
ModuleRounds(w, i) ==
    IF i > Len(w.enhancer.this.changedModules) THEN { w }
    ELSE LET moduleName == w.enhancer.this.changedModules[i]
             currentDoc == readModuleDoc(w.files, moduleName)
         IN  IF currentDoc = << >> THEN ModuleRounds(w, i + 1)
             ELSE UNION { ModuleRounds(IF Truthy(enhancedDoc)
                                        THEN writeModuleDoc(w, moduleName, enhancedDoc.value)
                                        ELSE w, i + 1) :
                            enhancedDoc \in Answers(Prompt("module", moduleName,
                                                           analyzeModuleCode(moduleName),
                                                           currentDoc)) }

\* The trees a run of the enhancer that passes its probe can leave.
EnhancedTrees(fs, names) ==
    { addPerformanceSection(enhanceArchitectureOverview(w, insights), recommendations).files :
        w \in ModuleRounds(ChildProcess(fs, names), 1),
        insights \in Answers(Prompt("insights", "", <<"codebase analysis">>, << >>)),
        recommendations \in Answers(Prompt("performance", "", << >>, << >>)) }

\* The module pages the enhancer has rewritten between the two trees.
Rewritten(before, after) ==
    { m \in Modules : /\ existsSync(after, ModuleDocPath(m))
                      /\ existsSync(before, ModuleDocPath(m))
                      /\ after[ModuleDocPath(m)] # before[ModuleDocPath(m)] }

BatchesInit ==
    /\ NoWatcherProcess
    /\ NoDetectorInput
    /\ workflow = [ pc |-> "none" ]
    /\ process = [ env |-> << >>, argv |-> << >> ]
    /\ filesAtStart = << >>
    /\ enhancer = [ pc |-> "none" ]
    /\ requests = << >>
    /\ fileOps = << >>
    /\ now = 0
    /\ generator = [ pc |-> "none" ]
    /\ config \in BatchConfigurations
    /\ files \in BatchTrees
    /\ docs = [ phase |-> "idle", batch |-> 0, modules |-> << >>, meets |-> FALSE,
                generated |-> "none", enhanced |-> {}, everEnhanced |-> {} ]

BatchesUnchanged ==
    UNCHANGED <<watcherVars, detectorVars, workflow, process, filesAtStart, enhancer,
                requests, fileOps, now, config, generator>>

\* processAccumulatedChanges takes a batch: its analysis has the modules
\* `names`, and it meets the threshold or not.
StartBatch ==
    /\ docs.phase = "idle"
    /\ docs.batch < MaxBatches
    /\ \E names \in ModuleLists, meets \in BOOLEAN :
          docs' = [ docs EXCEPT !.phase = "quickUpdate", !.batch = @ + 1, !.modules = names,
                                !.meets = meets, !.generated = "none" ]
    /\ UNCHANGED files
    /\ BatchesUnchanged

\* quickUpdate: the generator runs to its end, or one of its calls of fs
\* throws after the calls before it (none, when the type sync failed before
\* the generator); quickUpdate catches, and processAccumulatedChanges goes on
\* to the threshold test.
QuickUpdate ==
    /\ docs.phase = "quickUpdate"
    /\ LET calls == GeneratorCalls(files, config) IN
       \E n \in 0..Len(calls) :
          /\ files' = After(files, calls, n)
          /\ docs' = [ docs EXCEPT
                         !.phase = IF docs.meets THEN "aiEnhancedUpdate" ELSE "idle",
                         !.generated = IF n = Len(calls) THEN "ok" ELSE "fail",
                         !.enhanced = { m \in @ : ModuleDocPath(m) \notin Range(Written(calls, n)) } ]
    /\ BatchesUnchanged

\* aiEnhancedUpdate: without an API key, or when the enhancer aborts, the tree
\* stays as it is; otherwise the enhancer runs on it to its end.
AiEnhancedUpdate ==
    /\ docs.phase = "aiEnhancedUpdate"
    /\ \E after \in { files } \cup EnhancedTrees(files, docs.modules) :
          /\ files' = after
          /\ docs' = [ docs EXCEPT !.phase = "idle",
                                   !.enhanced = @ \cup Rewritten(files, after),
                                   !.everEnhanced = @ \cup Rewritten(files, after) ]
    /\ BatchesUnchanged

BatchesNext == StartBatch \/ QuickUpdate \/ AiEnhancedUpdate

BatchesSpec == BatchesInit /\ [][BatchesNext]_vars

(***************************************************************************)
(* Properties of the batches on the files                                  *)
(***************************************************************************)

\* The latest batch has regenerated the documentation and the enhancer has
\* not run since.
JustRegenerated ==
    /\ docs.generated = "ok"
    /\ docs.phase = "aiEnhancedUpdate" \/ (docs.phase = "idle" /\ ~docs.meets)

\* C38 as stated: after a successful regeneration no module page holds
\* content the enhancer wrote in an earlier batch.
C38_NoEnhancedPageSurvives ==
    JustRegenerated => docs.enhanced = {}

\* C38 amended: after a successful regeneration the page modules/<name>.mdx
\* of every module of the generator's configuration is the generator's
\* template, so that content the enhancer wrote there in an earlier batch is
\* gone; the enhanced pages that survive are pages of modules that are not in
\* the configuration.
C38_RegenerationResetsConfiguredPages ==
    JustRegenerated =>
        /\ \A i \in 1..Len(config) :
               /\ existsSync(files, ModuleDocPath(config[i].name))
               /\ files[ModuleDocPath(config[i].name)] = moduleDoc(config[i])
        /\ \A m \in docs.enhanced : \A i \in 1..Len(config) : config[i].name # m

\* C38 witness: the enhancer rewrote the page of the configured module sales
\* in the first batch, and the second batch, below the threshold, has
\* regenerated it.
C38_Witness ==
    /\ docs.phase = "idle"
    /\ docs.batch = 2
    /\ ~docs.meets
    /\ docs.generated = "ok"
    /\ "sales" \in docs.everEnhanced
    /\ \E i \in 1..Len(config) :
          config[i].name = "sales" /\ files[ModuleDocPath("sales")] = moduleDoc(config[i])

\* The number of "AI-Generated Insights" sections of a page.
Sections(page) == Cardinality({ i \in 1..Len(page) : page[i] = InsightsHeading })

\* C39: at any moment of any sequence of batches, architecture/overview.mdx
\* holds at most one "AI-Generated Insights" section.
C39_AtMostOneInsightsSection ==
    existsSync(files, OverviewPath) => Sections(files[OverviewPath]) <= 1

====
